---- MODULE Spec2Model ----
(***************************************************************************)
(* A model of dir-tree-scanner: the durable state store (state.rs), the    *)
(* incremental scan engine (scanner.rs) and the callers that sequence      *)
(* them.  Strings and file names are sequences of bytes (0..255); a path   *)
(* is a sequence of names; a ScanState is a function from directory key    *)
(* (a String) to a DirEntry record.                                        *)
(***************************************************************************)
EXTENDS Integers, Sequences, FiniteSets, TLC

VARIABLES
    disk,        \* the files of the store: path -> [exists, bytes]
    statePath,   \* the path handed to load and save
    state,       \* the in-memory ScanState (state.dirs)
    stateOrigin, \* version byte of the file `state` was loaded from, 0 if none
    savePc,      \* position of the running ScanState::save
    saveState,   \* the state that save was called on
    saveData,    \* the bytes save built (header + compressed payload)
    saveOld,     \* what the target path held when save was called
    saveTmp,     \* tmp_path computed by save
    saveOff,     \* number of bytes of saveData written to the temporary file
    loadOut,     \* the last LoadOutcome
    loadRead,    \* what fs::read returned to that load: [err, bytes]
    extSrc,      \* how the environment produced the target's content
    extOps,      \* number of environment edits of the target so far
    fs,          \* the directory tree: path below the root -> [mtime, entries]
    exclude,     \* the exclusion list handed to scan
    scanPc,      \* position of the running scan
    scanQueue,   \* the entries the walker has still to yield
    seen_dirs,   \* scan's seen_dirs
    stats,       \* scan's ScanStats
    scanLog,     \* the "cache hit" and "scanning" events of the scan, in order
    scanPre,     \* the state when the scan was called
    run,         \* number of scans started
    change,      \* what was changed between the two scans, "none" if nothing
    cliPc,       \* the step of the command-line run
    cliCmd,      \* the subcommand: "csv" or "tree"
    rootKind,    \* what the root argument names: "dir", "file" or "missing"
    verbose,     \* the --verbose flag
    ignoreArgs,  \* the --ignore arguments as given
    ignore,      \* the compiled patterns handed to render_tree
    no_escape,   \* the --no-escape flag
    show_hidden, \* the --all flag
    cliLog,      \* the steps of the run that have completed, in order
    stderr,      \* the messages written to stderr, in order
    csvFile,     \* the file at the CSV output path
    stdout,      \* the lines written to stdout, in order
    rendered,    \* what render_tree returned
    exitCode,    \* the exit status, -1 while the process runs
    files0,      \* the state file and the CSV file when the run started
    links,       \* two saving processes: the directory, path -> inode, 0 if no such name
    inodes,      \* two saving processes: the content of each inode
    saver        \* two saving processes: per process, the position of its save, its
                 \* state, the bytes it built, its temporary path, its open file
                 \* and its offset in it

storeOnly == <<disk, statePath, stateOrigin, savePc, saveState, saveData,
               saveOld, saveTmp, saveOff, loadOut, loadRead, extSrc, extOps>>

scanRest == <<exclude, scanPc, scanQueue, seen_dirs, stats, scanLog, scanPre, run, change>>

scanOnly == <<fs, scanRest>>

cliOnly == <<cliPc, cliCmd, rootKind, verbose, ignoreArgs, ignore, no_escape, show_hidden, cliLog,
             stderr, csvFile, stdout, rendered, exitCode, files0>>

procOnly == <<links, inodes, saver>>

restOnly == <<cliOnly, procOnly>>

vars == <<state, storeOnly, scanOnly, restOnly>>

(***************************************************************************)
(* Bounds of the model.                                                    *)
(***************************************************************************)
\* longest file list of a DirEntry in the states drawn for the store
MaxFiles == 1
\* number of edits the environment makes to a state file before it is loaded
MaxExt == 1
\* most bytes one write(2) call of save takes, unless it takes all the rest
WriteChunk == 16

(***************************************************************************)
(* Bytes and strings.                                                      *)
(***************************************************************************)
Dot == 46
Slash == 47
\* U+FFFD REPLACEMENT CHARACTER in UTF-8
Replacement == <<239, 191, 189>>

\* Validity of a byte string as UTF-8, for the code points the model uses:
\* ASCII and U+FFFD; any other byte at or above 128 makes the string invalid.
Utf8Valid(s) ==
    \A i \in 1..Len(s) :
       \/ s[i] < 128
       \/ \E j \in {i - 2, i - 1, i} :
             j >= 1 /\ j + 2 <= Len(s) /\ SubSeq(s, j, j + 2) = Replacement

StartsWithDot(name) == Len(name) >= 1 /\ name[1] = Dot

(***************************************************************************)
(* state.rs: constants and data model.                                     *)
(***************************************************************************)
MAGIC == <<70, 83, 83, 78>>
VERSION == 2
HEADER_SIZE == 5

FileEntry(filename, size, ctime, mtime) ==
    [filename |-> filename, size |-> size, ctime |-> ctime, mtime |-> mtime]

DirEntry(dir_mtime, files) == [dir_mtime |-> dir_mtime, files |-> files]

\* ScanState::default(): no directories
EmptyState == <<>>

(***************************************************************************)
(* rkyv::to_bytes / rkyv::from_bytes for the derived Archive of ScanState. *)
(* Every integer field is one byte wide in the model (two's complement for *)
(* the signed ones); a string or a list is its length followed by its      *)
(* elements; the map is its entry count followed by its entries in the     *)
(* iteration order of the HashMap.                                         *)
(***************************************************************************)
SerI64(i) == <<i % 256>>
SerU64(n) == <<n % 256>>
SerStr(s) == <<Len(s)>> \o s

SerFile(f) == SerStr(f.filename) \o SerU64(f.size) \o SerI64(f.ctime) \o SerI64(f.mtime)

RECURSIVE SerFileSeq(_)
SerFileSeq(files) ==
    IF files = <<>> THEN <<>> ELSE SerFile(Head(files)) \o SerFileSeq(Tail(files))

SerFiles(files) == <<Len(files)>> \o SerFileSeq(files)

SerDir(key, d) == SerStr(key) \o SerI64(d.dir_mtime) \o SerFiles(d.files)

RECURSIVE SerDirSeq(_, _)
SerDirSeq(st, order) ==
    IF order = <<>> THEN <<>>
    ELSE SerDir(Head(order), st[Head(order)]) \o SerDirSeq(st, Tail(order))

\* rkyv::to_bytes(self); `order` is the HashMap's iteration order
ToBytes(st, order) == <<Len(order)>> \o SerDirSeq(st, order)

\* the iteration orders a HashMap with these keys can have
KeyOrders(st) ==
    LET K == DOMAIN st
        n == Cardinality(K)
    IN  {o \in [1..n -> K] : \A i, j \in 1..n : o[i] = o[j] => i = j}

ParseFail == [ok |-> FALSE, val |-> <<>>, rest |-> <<>>]
ParseOk(v, r) == [ok |-> TRUE, val |-> v, rest |-> r]

\* a one-byte two's complement integer
ParseI64(b) == IF b < 128 THEN b ELSE b - 256

\* an archived FileEntry: the filename (length, bytes), size, ctime, mtime
ParseFile(bs) ==
    IF bs = <<>> \/ Len(bs) < bs[1] + 4 THEN ParseFail
    ELSE LET n == bs[1]
             filename == SubSeq(bs, 2, n + 1)
         IN  IF ~Utf8Valid(filename) THEN ParseFail
             ELSE ParseOk(FileEntry(filename, bs[n + 2], ParseI64(bs[n + 3]),
                                    ParseI64(bs[n + 4])),
                          SubSeq(bs, n + 5, Len(bs)))

RECURSIVE ParseFileSeq(_, _, _)
ParseFileNext(f, n, acc) ==
    IF f.ok THEN ParseFileSeq(f.rest, n - 1, Append(acc, f.val)) ELSE ParseFail

\* an archived Vec<FileEntry> of n elements
ParseFileSeq(bs, n, acc) ==
    IF n = 0 THEN ParseOk(acc, bs) ELSE ParseFileNext(ParseFile(bs), n, acc)

ParseDirFiles(key, dir_mtime, files) ==
    IF files.ok THEN ParseOk(<<key, DirEntry(dir_mtime, files.val)>>, files.rest)
    ELSE ParseFail

\* an archived map entry: the key (length, bytes), dir_mtime, the files (count, elements)
ParseDir(bs) ==
    IF bs = <<>> \/ Len(bs) < bs[1] + 3 THEN ParseFail
    ELSE LET n == bs[1]
             key == SubSeq(bs, 2, n + 1)
         IN  IF ~Utf8Valid(key) THEN ParseFail
             ELSE ParseDirFiles(key, ParseI64(bs[n + 2]),
                                ParseFileSeq(SubSeq(bs, n + 4, Len(bs)), bs[n + 3], <<>>))

RECURSIVE ParseDirSeq(_, _, _)
ParseDirNext(d, n, acc) ==
    IF d.ok THEN ParseDirSeq(d.rest, n - 1, (d.val[1] :> d.val[2]) @@ acc)
    ELSE ParseFail

\* the n entries of the archived map, inserted into a HashMap
ParseDirSeq(bs, n, acc) ==
    IF n = 0 THEN ParseOk(acc, bs) ELSE ParseDirNext(ParseDir(bs), n, acc)

\* the archive must be used up exactly
ParseWhole(r) == IF r.ok /\ r.rest = <<>> THEN ParseOk(r.val, <<>>) ELSE ParseFail

\* rkyv::from_bytes::<ScanState>(bytes): the validated deserialization
FromBytes(bs) ==
    IF bs = <<>> THEN ParseFail
    ELSE ParseWhole(ParseDirSeq(Tail(bs), bs[1], EmptyState))

(***************************************************************************)
(* brotli: CompressorWriter / BrotliDecompress, as run-length coding: a    *)
(* stream is a list of (count, byte) runs closed by a zero count.          *)
(***************************************************************************)
RECURSIVE RunLen(_)
RunLen(bs) ==
    IF Len(bs) >= 2 /\ bs[2] = bs[1] THEN 1 + RunLen(Tail(bs)) ELSE 1

Repeat(b, n) == [i \in 1..n |-> b]

RECURSIVE CompressNoCount(_)
CompressNoCount(bs) ==
    IF bs = <<>> THEN <<0>>
    ELSE <<1, bs[1]>> \o CompressNoCount(SubSeq(bs, RunLen(bs) + 1, Len(bs)))

RECURSIVE Compress(_)
Compress(bs) ==
    IF bs = <<>> THEN <<0>>
    ELSE <<RunLen(bs), bs[1]>> \o Compress(SubSeq(bs, RunLen(bs) + 1, Len(bs)))

RECURSIVE DecompressRuns(_, _)
DecompressRuns(bs, out) ==
    IF bs = <<>> THEN ParseFail
    ELSE IF bs[1] = 0 THEN (IF Len(bs) = 1 THEN ParseOk(out, <<>>) ELSE ParseFail)
    ELSE IF Len(bs) < 2 THEN ParseFail
    ELSE DecompressRuns(SubSeq(bs, 3, Len(bs)), out \o Repeat(bs[2], bs[1]))

Decompress(bs) == DecompressRuns(bs, <<>>)

(***************************************************************************)
(* state.rs: ScanState::load.                                              *)
(***************************************************************************)
Outcome(tag, st, reason) == [tag |-> tag, state |-> st, reason |-> reason]
Loaded(st) == Outcome("Loaded", st, "")
NotFound == Outcome("NotFound", EmptyState, "")
Invalid(reason) == Outcome("Invalid", EmptyState, reason)
\* an index or a slice out of range aborts the process
Panicked == Outcome("Panic", EmptyState, "")
\* no load has returned yet
NoOutcome == Outcome("none", EmptyState, "")

\* state.rs 81-84: the match on the result of rkyv::from_bytes
LoadRkyvResult(r) == IF r.ok THEN Loaded(r.val) ELSE Invalid("corrupt data")

\* state.rs 76-84: rkyv::from_bytes on the aligned copy
LoadRkyv(bytes) == LoadRkyvResult(FromBytes(bytes))

\* state.rs 64-72: rkyv_bytes for versions 1 and 2
RkyvBytes(version, payload) ==
    IF version = 1 THEN ParseOk(payload, <<>>) ELSE Decompress(payload)

LoadDecompressed(bytes) ==
    IF bytes.ok THEN LoadRkyv(bytes.val) ELSE Invalid("decompression error")

LoadPayloadGuess(version, payload) ==
    LoadDecompressed(RkyvBytes(IF version = 2 THEN 2 ELSE 1, payload))

\* the dispatch on the version byte, state.rs 64-84
LoadPayload(version, payload) ==
    IF version \notin {1, 2} THEN Invalid("unsupported version " \o ToString(version))
    ELSE LoadDecompressed(RkyvBytes(version, payload))

LoadHeaderVersionFirst(data) ==
    IF Len(data) < HEADER_SIZE THEN Panicked
    ELSE IF data[5] \notin {1, 2}
    THEN Invalid("unsupported version " \o ToString(data[5]))
    ELSE IF SubSeq(data, 1, 4) # MAGIC THEN Invalid("not a state file (wrong magic)")
    ELSE LoadPayload(data[5], SubSeq(data, HEADER_SIZE + 1, Len(data)))

\* state.rs 56-74: &data[..4], data[4] and &data[HEADER_SIZE..] panic when out of range
LoadHeader(data) ==
    IF Len(data) < 4 THEN Panicked
    ELSE IF SubSeq(data, 1, 4) # MAGIC THEN Invalid("not a state file (wrong magic)")
    ELSE IF Len(data) < HEADER_SIZE THEN Panicked
    ELSE LoadPayload(data[5], SubSeq(data, HEADER_SIZE + 1, Len(data)))

LoadBytesUnchecked(data) == LoadHeader(data)

\* state.rs 52-84: load once fs::read has returned the bytes
LoadBytes(data) ==
    IF Len(data) < HEADER_SIZE THEN Invalid("truncated state file")
    ELSE LoadHeader(data)

\* the results of fs::read(path): the bytes, or an io::Error kind
ReadOk(bytes) == [err |-> "", bytes |-> bytes]
ReadErr(kind) == [err |-> kind, bytes |-> <<>>]
OtherReadErrors == {"PermissionDenied"}

\* state.rs 45-85
Load(read) ==
    IF read.err = "NotFound" THEN NotFound
    ELSE IF read.err # "" THEN Invalid("read error: " \o read.err)
    ELSE LoadBytes(read.bytes)

(***************************************************************************)
(* state.rs: tmp_path_for and ScanState::save.                             *)
(***************************************************************************)
TmpSuffix == <<46, 116, 109, 112>>

\* Path::file_name().unwrap_or_default() and Path::parent()
FileName(path) == IF path = <<>> THEN <<>> ELSE path[Len(path)]
Parent(path) == SubSeq(path, 1, Len(path) - 1)

\* OsStr::to_string_lossy: every byte that is not part of valid UTF-8
\* becomes U+FFFD
RECURSIVE ToStringLossy(_)
ToStringLossy(bs) ==
    IF bs = <<>> THEN <<>>
    ELSE IF bs[1] < 128 THEN <<bs[1]>> \o ToStringLossy(Tail(bs))
    ELSE IF Len(bs) >= 3 /\ SubSeq(bs, 1, 3) = Replacement
         THEN Replacement \o ToStringLossy(SubSeq(bs, 4, Len(bs)))
    ELSE Replacement \o ToStringLossy(Tail(bs))

TmpPathSame(path) == path

\* state.rs 114-125
TmpPathFor(path) ==
    LET file_name == ToStringLossy(FileName(path))
        hidden_name == IF StartsWithDot(file_name) THEN file_name \o TmpSuffix
                       ELSE <<Dot>> \o file_name \o TmpSuffix
    IN  IF path = <<>> THEN <<hidden_name>> ELSE Parent(path) \o <<hidden_name>>

SaveBytesV1(st, order) == MAGIC \o <<1>> \o ToBytes(st, order)

\* state.rs 88-100: serialize, compress, prepend the header
SaveBytes(st, order) == MAGIC \o <<VERSION>> \o Compress(ToBytes(st, order))

(***************************************************************************)
(* The files of the store.                                                 *)
(***************************************************************************)
NoFile == [exists |-> FALSE, bytes |-> <<>>]
File(bytes) == [exists |-> TRUE, bytes |-> bytes]

\* "d/s" and "d/.s"
StatePaths == { << <<100>>, <<115>> >>, << <<100>>, <<Dot, 115>> >> }
DiskPaths == StatePaths \cup {TmpPathFor(p) : p \in StatePaths}

\* write(2) of `chunk` at offset `off` of a file holding `bytes`
WriteAt(bytes, off, chunk) ==
    SubSeq(bytes, 1, off) \o chunk
        \o SubSeq(bytes, off + Len(chunk) + 1, Len(bytes))

(***************************************************************************)
(* The states drawn for the store.                                         *)
(***************************************************************************)
Mtimes == {-1, 42}
FileEntries == {FileEntry(<<97>>, 100, 42, 42), FileEntry(<<98>>, 0, -1, 4)}
FileLists == UNION {[1..n -> FileEntries] : n \in 0..MaxFiles}
DirEntries == {DirEntry(m, fl) : m \in Mtimes, fl \in FileLists}
StoreKeys == {<<Slash>>, <<Slash, 97>>}
States == UNION {[K -> DirEntries] : K \in SUBSET StoreKeys}

(***************************************************************************)
(* The directory that holds the state file.  When the state file is at its *)
(* default place it is a file of the scanned root: creating, renaming and  *)
(* removing a name there moves the mtime of the root.                      *)
(***************************************************************************)
\* the root handed to scan: /r
RootName == <<114>>

FsEntry(name, kind, size, ctime, mtime) ==
    [name |-> name, kind |-> kind, size |-> size, ctime |-> ctime, mtime |-> mtime]

Dir(mtime, entries) == [mtime |-> mtime, entries |-> entries]

\* ".fsscan.state"
DefaultStateName == <<46, 102, 115, 115, 99, 97, 110, 46, 115, 116, 97, 116, 101>>

NoPath == <<>>

\* ops.rs 16-18
ResolveStatePath(given, root) ==
    IF given = NoPath THEN root \o <<DefaultStateName>> ELSE given

InScannedRoot(tree, path) ==
    Len(path) = 2 /\ path[1] = RootName /\ <<>> \in DOMAIN tree

\* the clock has advanced since the root was last modified
Later(tree) == tree[<<>>].mtime + 1

WithoutName(entries, name) == SelectSeq(entries, LAMBDA e : e.name # name)

HasName(entries, name) == \E i \in 1..Len(entries) : entries[i].name = name

\* open with create and truncate: a new name moves the directory's mtime
DirCreate(tree, path) ==
    IF ~InScannedRoot(tree, path) THEN tree
    ELSE [tree EXCEPT ![<<>>] =
            Dir(IF HasName(@.entries, FileName(path)) THEN @.mtime ELSE Later(tree),
                Append(WithoutName(@.entries, FileName(path)),
                       FsEntry(FileName(path), "file", 0, Later(tree), Later(tree))))]

\* rename(2) within the directory: the target is replaced
DirRename(tree, from, to, size) ==
    IF ~InScannedRoot(tree, to) \/ from = to THEN tree
    ELSE [tree EXCEPT ![<<>>] =
            Dir(Later(tree),
                Append(WithoutName(WithoutName(@.entries, FileName(from)), FileName(to)),
                       FsEntry(FileName(to), "file", size, Later(tree), Later(tree))))]

\* unlink(2)
DirRemove(tree, path) ==
    IF ~InScannedRoot(tree, path) \/ ~HasName(tree[<<>>].entries, FileName(path)) THEN tree
    ELSE [tree EXCEPT ![<<>>] = Dir(Later(tree), WithoutName(@.entries, FileName(path)))]

(***************************************************************************)
(* The store as a state machine.  save runs in steps (build the bytes,     *)
(* create the temporary file, write it, rename it) so that a failure or a  *)
(* crash can fall between any two of them; load runs in one step.          *)
(***************************************************************************)
SaveRunning == savePc \in {"create", "write", "rename"}

\* state.rs 88-104: the bytes and the temporary path
SaveBegin ==
    /\ savePc = "idle"
    /\ \E order \in KeyOrders(state) : saveData' = SaveBytes(state, order)
    /\ saveState' = state
    /\ saveOld' = disk[statePath]
    /\ saveTmp' = TmpPathFor(statePath)
    /\ saveOff' = 0
    /\ savePc' = "create"
    /\ loadOut' = NoOutcome
    /\ loadRead' = ReadErr("none")
    /\ UNCHANGED <<restOnly, scanOnly, disk, statePath, state, stateOrigin, extSrc, extOps>>

\* state.rs 105, fs::write: open with create and truncate
SaveCreateTmp ==
    /\ savePc = "create"
    /\ disk' = [disk EXCEPT ![saveTmp] = File(<<>>)]
    /\ fs' = DirCreate(fs, saveTmp)
    /\ savePc' = "write"
    /\ UNCHANGED <<restOnly, scanRest, statePath, state, stateOrigin, saveState, saveData, saveOld,
                   saveTmp, saveOff, loadOut, loadRead, extSrc, extOps>>

\* state.rs 105, fs::write: write_all, one write(2) of n bytes at a time
SaveWrite ==
    /\ savePc = "write"
    /\ \E n \in {WriteChunk, Len(saveData) - saveOff} :
          /\ saveOff + n <= Len(saveData)
          /\ disk' = [disk EXCEPT ![saveTmp] =
                        File(WriteAt(@.bytes, saveOff,
                                     SubSeq(saveData, saveOff + 1, saveOff + n)))]
          /\ saveOff' = saveOff + n
          /\ savePc' = IF saveOff + n = Len(saveData) THEN "rename" ELSE "write"
    /\ UNCHANGED <<restOnly, scanOnly, statePath, state, stateOrigin, saveState, saveData, saveOld,
                   saveTmp, loadOut, loadRead, extSrc, extOps>>

\* state.rs 105: fs::write returns an error (open or write) and `?` returns it
SaveWriteFail ==
    /\ savePc \in {"create", "write"}
    /\ savePc' = "failed"
    /\ UNCHANGED <<restOnly, scanOnly, disk, statePath, state, stateOrigin, saveState, saveData, saveOld,
                   saveTmp, saveOff, loadOut, loadRead, extSrc, extOps>>

\* state.rs 106: fs::rename succeeds
SaveRename ==
    /\ savePc = "rename"
    /\ disk[saveTmp].exists
    /\ disk' = IF saveTmp = statePath THEN disk
               ELSE [disk EXCEPT ![statePath] = disk[saveTmp], ![saveTmp] = NoFile]
    /\ fs' = DirRename(fs, saveTmp, statePath, Len(disk[saveTmp].bytes))
    /\ savePc' = "ok"
    /\ UNCHANGED <<restOnly, scanRest, statePath, state, stateOrigin, saveState, saveData, saveOld,
                   saveTmp, saveOff, loadOut, loadRead, extSrc, extOps>>

\* a failing rename that leaves the temporary file where it is
SaveRenameFailKeepsTmp ==
    /\ savePc = "rename"
    /\ savePc' = "failed"
    /\ UNCHANGED <<restOnly, scanOnly, disk, statePath, state, stateOrigin, saveState, saveData,
                   saveOld, saveTmp, saveOff, loadOut, loadRead, extSrc, extOps>>

\* state.rs 106-108: fs::rename fails, the temporary file is removed
SaveRenameFail ==
    /\ savePc = "rename"
    /\ disk' = [disk EXCEPT ![saveTmp] = NoFile]
    /\ fs' = DirRemove(fs, saveTmp)
    /\ savePc' = "failed"
    /\ UNCHANGED <<restOnly, scanRest, statePath, state, stateOrigin, saveState, saveData, saveOld,
                   saveTmp, saveOff, loadOut, loadRead, extSrc, extOps>>

\* the process dies between two steps of save
SaveCrash ==
    /\ SaveRunning
    /\ savePc' = "crashed"
    /\ UNCHANGED <<restOnly, scanOnly, disk, statePath, state, stateOrigin, saveState, saveData, saveOld,
                   saveTmp, saveOff, loadOut, loadRead, extSrc, extOps>>

\* fs::read(path), state.rs 46
ReadResults(path) ==
    (IF disk[path].exists THEN {ReadOk(disk[path].bytes)} ELSE {ReadErr("NotFound")})
        \cup {ReadErr(e) : e \in OtherReadErrors}

\* ops.rs 24-39: the state the run continues from
LoadReturn(r, out) ==
    /\ loadRead' = r
    /\ loadOut' = out
    /\ state' = IF out.tag = "Loaded" THEN out.state ELSE EmptyState
    /\ stateOrigin' = IF out.tag = "Loaded" THEN r.bytes[5] ELSE 0

\* a load that takes the temporary file of the target when there is one
LoadStateTmpFirst ==
    /\ ~SaveRunning
    /\ \E r \in ReadResults(IF disk[TmpPathFor(statePath)].exists THEN TmpPathFor(statePath)
                             ELSE statePath) : LoadReturn(r, Load(r))
    /\ UNCHANGED <<restOnly, scanOnly, disk, statePath, savePc, saveState, saveData, saveOld,
                   saveTmp, saveOff, extSrc, extOps>>

\* ops.rs 22-41, load_state: ScanState::load and the state the run continues from
LoadState ==
    /\ ~SaveRunning
    /\ \E r \in ReadResults(statePath) : LoadReturn(r, Load(r))
    /\ UNCHANGED <<restOnly, scanOnly, disk, statePath, savePc, saveState, saveData, saveOld,
                   saveTmp, saveOff, extSrc, extOps>>

(***************************************************************************)
(* The environment: what may lie at the state path before a load.          *)
(***************************************************************************)
Versions == {1, 2, 99}
ByteSamples == {0, 2, 88}
NoSrc == [version |-> 0, kind |-> "unknown", st |-> EmptyState]

ExtEdit(file) ==
    /\ extOps < MaxExt
    /\ ~SaveRunning
    /\ disk' = [disk EXCEPT ![statePath] = file]
    /\ extOps' = extOps + 1
    /\ loadOut' = NoOutcome
    /\ loadRead' = ReadErr("none")
    /\ UNCHANGED <<restOnly, scanOnly, statePath, state, stateOrigin, savePc, saveState, saveData,
                   saveOld, saveTmp, saveOff>>

\* a file with the magic, a version byte and the serialization of a state
Written(v, kind, st, order) ==
    File(MAGIC \o <<v>> \o (IF kind = "raw" THEN ToBytes(st, order)
                            ELSE Compress(ToBytes(st, order))))

\* the file is cut short
ExtTruncate ==
    /\ disk[statePath].exists
    /\ \E n \in {0, 4, 5, Len(disk[statePath].bytes) - 1} :
          /\ n >= 0 /\ n < Len(disk[statePath].bytes)
          /\ ExtEdit(File(SubSeq(disk[statePath].bytes, 1, n)))
    /\ extSrc' = NoSrc

\* one byte of the file is overwritten
ExtSetByte ==
    /\ disk[statePath].exists
    /\ \E i \in 1..Len(disk[statePath].bytes), b \in ByteSamples :
          /\ i \in {1, HEADER_SIZE, HEADER_SIZE + 1, HEADER_SIZE + 2}
          /\ disk[statePath].bytes[i] # b
          /\ ExtEdit(File([disk[statePath].bytes EXCEPT ![i] = b]))
    /\ extSrc' = NoSrc

\* the file is removed
ExtRemove ==
    /\ disk[statePath].exists
    /\ ExtEdit(NoFile)
    /\ extSrc' = NoSrc

\* no second process saves
ProcUnused ==
    /\ links = <<>>
    /\ inodes = <<>>
    /\ saver = <<>>

\* no command line is run
CliUnused ==
    /\ cliPc = "unused"
    /\ cliCmd = "none"
    /\ rootKind = "dir"
    /\ verbose = FALSE
    /\ ignoreArgs = <<>>
    /\ ignore = <<>>
    /\ no_escape = FALSE
    /\ show_hidden = FALSE
    /\ cliLog = <<>>
    /\ stderr = <<>>
    /\ csvFile = NoFile
    /\ stdout = <<>>
    /\ rendered = [out |-> <<>>, dir_count |-> 0, file_count |-> 0]
    /\ exitCode = -1
    /\ files0 = <<>>

\* no tree is scanned
ScanUnused ==
    /\ fs = <<>>
    /\ exclude = {}
    /\ scanPc = "idle"
    /\ scanQueue = <<>>
    /\ seen_dirs = {}
    /\ stats = [dirs_cached |-> 0, dirs_scanned |-> 0, dirs_removed |-> 0]
    /\ scanLog = <<>>
    /\ scanPre = EmptyState
    /\ run = 0
    /\ change = "none"

Garbage == <<110, 111, 116, 32, 118, 97, 108, 105, 100>>

InitStore ==
    /\ statePath = << <<100>>, <<115>> >>
    /\ state \in States
    /\ stateOrigin = 0
    /\ savePc = "idle"
    /\ saveState = EmptyState
    /\ saveData = <<>>
    /\ saveOld = NoFile
    /\ saveTmp = <<>>
    /\ saveOff = 0
    /\ loadOut = NoOutcome
    /\ loadRead = ReadErr("none")
    /\ extSrc = NoSrc
    /\ extOps = 0
    /\ ScanUnused
    /\ CliUnused
    /\ ProcUnused

\* the store under save, load and crashes; the target starts absent, as garbage,
\* or as a version-1 or version-2 file of some state, and an earlier run may have
\* left a temporary file behind
InitSave ==
    /\ InitStore
    /\ \E old \in {NoFile, File(Garbage)}
                  \cup {File(MAGIC \o <<1>> \o ToBytes(st, o)) :
                          st \in {state}, o \in KeyOrders(state)}
                  \cup {File(SaveBytes(st, CHOOSE o \in KeyOrders(st) : TRUE)) :
                          st \in {EmptyState, (<<Slash>> :> DirEntry(42, <<>>))}} :
       \E left \in {NoFile, File(<<70, 83>>)} :
          disk = [p \in DiskPaths |-> IF p = statePath THEN old
                                      ELSE IF p = TmpPathFor(statePath) THEN left
                                      ELSE NoFile]

NextSave ==
    \/ SaveBegin
    \/ SaveCreateTmp
    \/ SaveWrite
    \/ SaveWriteFail
    \/ SaveRename
    \/ SaveRenameFail
    \/ SaveCrash
    \/ LoadState

(***************************************************************************)
(* tmp_path_for on its own, over targets with and without a directory,     *)
(* with names that start with a dot, that hold dots, and that are not      *)
(* valid UTF-8.                                                            *)
(***************************************************************************)
MaxNameLen == 3

NameBytes == {Dot, 115, 255}

TargetNames == UNION {[1..n -> NameBytes] : n \in 1..MaxNameLen}

TargetPaths ==
    {<<>>} \cup {dir \o <<name>> : dir \in {<<>>, << <<100>> >>, << <<100>>, <<Dot, 101>> >>},
                                   name \in TargetNames}

InitTmp ==
    /\ statePath \in TargetPaths
    /\ disk = <<>>
    /\ state = EmptyState
    /\ stateOrigin = 0
    /\ savePc = "idle"
    /\ saveState = EmptyState
    /\ saveData = <<>>
    /\ saveOld = NoFile
    /\ saveTmp = <<>>
    /\ saveOff = 0
    /\ loadOut = NoOutcome
    /\ loadRead = ReadErr("none")
    /\ extSrc = NoSrc
    /\ extOps = 0
    /\ ScanUnused
    /\ CliUnused
    /\ ProcUnused

\* state.rs 104: let tmp_path = tmp_path_for(path)
TmpPathForCall ==
    /\ savePc = "idle"
    /\ saveTmp = <<>>
    /\ saveTmp' = TmpPathFor(statePath)
    /\ UNCHANGED <<restOnly, scanOnly, disk, statePath, state, stateOrigin, savePc, saveState,
                   saveData, saveOld, saveOff, loadOut, loadRead, extSrc, extOps>>

NextTmp == TmpPathForCall

SpecTmp == InitTmp /\ [][NextTmp]_vars

SpecSave == InitSave /\ [][NextSave]_vars

\* a save crashed after it had written two bytes of its temporary file; the
\* file is still there when the next process loads and saves
InitLeftover == InitSave /\ disk[TmpPathFor(statePath)] = File(<<70, 83>>)

NextLeftover == NextSave

SpecLeftover == InitLeftover /\ [][NextLeftover]_vars

\* the store under load of whatever the environment left at the state path
InitLoad ==
    /\ statePath = << <<100>>, <<115>> >>
    /\ state = EmptyState
    /\ stateOrigin = 0
    /\ savePc = "idle"
    /\ saveState = EmptyState
    /\ saveData = <<>>
    /\ saveOld = NoFile
    /\ saveTmp = <<>>
    /\ saveOff = 0
    /\ loadOut = NoOutcome
    /\ loadRead = ReadErr("none")
    /\ extOps = 0
    /\ ScanUnused
    /\ CliUnused
    /\ ProcUnused
    /\ \/ /\ extSrc = NoSrc
          /\ \E old \in {NoFile, File(Garbage)} :
                disk = [p \in DiskPaths |-> IF p = statePath THEN old ELSE NoFile]
       \/ \E v \in Versions, st \in States, kind \in {"raw", "compressed"} :
             \E order \in KeyOrders(st) :
                /\ extSrc = [version |-> v, kind |-> kind, st |-> st]
                /\ disk = [p \in DiskPaths |->
                             IF p = statePath THEN Written(v, kind, st, order)
                             ELSE NoFile]

NextLoad ==
    \/ ExtTruncate
    \/ ExtSetByte
    \/ ExtRemove
    \/ LoadState

SpecLoad == InitLoad /\ [][NextLoad]_vars

(***************************************************************************)
(* Properties of the store.                                                *)
(***************************************************************************)
\* the bytes the last load read, when fs::read succeeded
LoadedBytes == loadOut.tag # "none" /\ loadRead.err = ""

C2_CrashAtomic ==
    savePc # "idle" =>
        /\ disk[statePath] = saveOld \/ disk[statePath] = File(saveData)
        /\ savePc \in {"create", "write", "rename"} => disk[statePath] = saveOld
        /\ (saveOld.exists /\ LoadBytes(saveOld.bytes).tag = "Loaded")
              => (disk[statePath].exists
                  /\ LoadBytes(disk[statePath].bytes).tag = "Loaded")

C2_Witness ==
    /\ savePc = "crashed"
    /\ 0 < saveOff /\ saveOff < Len(saveData)
    /\ saveOld.exists
    /\ LoadBytes(saveOld.bytes).tag = "Loaded"
    /\ File(saveData) # saveOld

\* C3: load returns one of Loaded, NotFound and Invalid for every file content
\* and every read failure and never panics; it returns NotFound exactly when
\* the read failed because the file does not exist, and every other read
\* failure is Invalid with a "read error" reason.
C3_LoadTotal ==
    /\ loadOut.tag \in {"none", "Loaded", "NotFound", "Invalid"}
    /\ loadOut.tag # "none" =>
          /\ loadOut.tag = "NotFound" <=> loadRead.err = "NotFound"
          /\ loadRead.err = "NotFound" => ~disk[statePath].exists
          /\ loadRead.err \notin {"", "NotFound"}
                => loadOut = Invalid("read error: " \o loadRead.err)

C3_Witness ==
    /\ LoadedBytes
    /\ Len(loadRead.bytes) \in 1..(HEADER_SIZE - 1)
    /\ loadOut.tag = "Invalid"

\* the classes of bad files
HeaderOk(data) == Len(data) >= HEADER_SIZE /\ SubSeq(data, 1, 4) = MAGIC
PayloadOf(data) == SubSeq(data, HEADER_SIZE + 1, Len(data))
IsTruncated(data) == Len(data) < HEADER_SIZE
IsWrongMagic(data) == Len(data) >= HEADER_SIZE /\ SubSeq(data, 1, 4) # MAGIC
IsBadVersion(data) == HeaderOk(data) /\ data[5] \notin {1, 2}
IsUndecompressable(data) ==
    HeaderOk(data) /\ data[5] = 2 /\ ~Decompress(PayloadOf(data)).ok
IsUndeserializable(data) ==
    /\ HeaderOk(data)
    /\ \/ data[5] = 1 /\ ~FromBytes(PayloadOf(data)).ok
       \/ /\ data[5] = 2
          /\ Decompress(PayloadOf(data)).ok
          /\ ~FromBytes(Decompress(PayloadOf(data)).val).ok

\* C4: each class of bad file has its own Invalid reason (truncated, wrong
\* magic, unsupported version N, decompression error, corrupt data): a file is
\* in a class exactly when load returns Invalid with the reason of that class.
C4_Reasons ==
    LoadedBytes =>
        LET data == loadRead.bytes IN
        /\ IsTruncated(data) <=> loadOut = Invalid("truncated state file")
        /\ IsWrongMagic(data) <=> loadOut = Invalid("not a state file (wrong magic)")
        /\ IsBadVersion(data) <=>
              (/\ Len(data) >= HEADER_SIZE
               /\ loadOut = Invalid("unsupported version " \o ToString(data[5])))
        /\ IsUndecompressable(data) <=> loadOut = Invalid("decompression error")
        /\ IsUndeserializable(data) <=> loadOut = Invalid("corrupt data")

C4_Witness ==
    /\ LoadedBytes
    /\ loadRead.bytes[5] = 2
    /\ IsUndeserializable(loadRead.bytes)
    /\ loadOut = Invalid("corrupt data")

\* C5: the magic, version byte 1 and the raw serialization of S load as
\* Loaded(S), and so do the magic, version byte 2 and the compressed
\* serialization of S; any other version byte yields Invalid whatever the
\* payload is.
C5_Versions ==
    LoadedBytes =>
        /\ (extSrc.kind = "raw" /\ extSrc.version = 1) => loadOut = Loaded(extSrc.st)
        /\ (extSrc.kind = "compressed" /\ extSrc.version = 2)
              => loadOut = Loaded(extSrc.st)
        /\ IsBadVersion(loadRead.bytes) => loadOut.tag = "Invalid"

C5_Witness ==
    /\ LoadedBytes
    /\ extSrc.kind = "raw"
    /\ extSrc.version \notin {1, 2}
    /\ DOMAIN extSrc.st # {}
    /\ loadOut.tag = "Invalid"

\* a state file of the current format: magic, version byte 2, compressed payload
IsCurrentFormat(file) ==
    /\ file.exists
    /\ HeaderOk(file.bytes)
    /\ file.bytes[5] = 2
    /\ Decompress(PayloadOf(file.bytes)).ok

\* C6: every file a successful save leaves at the target starts with the
\* magic, then version byte 2, then a compressed payload; save never puts a
\* version-1 file there, also when the state was loaded from a version-1 file.
C6_AlwaysCompressed ==
    /\ savePc = "ok" => IsCurrentFormat(disk[statePath])
    /\ (savePc # "idle" /\ disk[statePath] # saveOld) => IsCurrentFormat(disk[statePath])

C6_Witness ==
    /\ savePc = "ok"
    /\ stateOrigin = 1
    /\ saveOld.exists /\ saveOld.bytes[5] = 1
    /\ DOMAIN saveState # {}

(***************************************************************************)
(* The directory tree.  A directory is named by its path below the scanned *)
(* root (a sequence of file names, <<>> for the root itself); the tree maps *)
(* every existing directory to its mtime and to its entries that are not   *)
(* directories, in the order read_dir yields them.                         *)
(***************************************************************************)
MaxMtime == 2

DirMtimes == 1..MaxMtime

RootBytes == <<Slash>> \o RootName

NameA == <<97>>
NameX == <<120>>
\* two names that are not valid UTF-8
NameFE == <<254>>
NameFF == <<255>>

TreePaths == {<<>>, <<NameX>>, <<NameX, NameA>>, <<NameFE>>, <<NameFF>>}

\* Path::file_name of a path of the walk
FileNameOf(p) == IF p = <<>> THEN RootName ELSE p[Len(p)]

\* the bytes of root.join(p)
RECURSIVE PathBytes(_)
PathBytes(p) ==
    IF p = <<>> THEN RootBytes
    ELSE PathBytes(SubSeq(p, 1, Len(p) - 1)) \o <<Slash>> \o p[Len(p)]

\* dir_key of a directory of the walk
DirKey(p) == ToStringLossy(PathBytes(p))

\* byte-wise lexicographic order of file names and of Strings
BytesLess(a, b) ==
    \E i \in 1..(Len(a) + 1) :
        /\ i <= Len(b)
        /\ \A j \in 1..(i - 1) : a[j] = b[j]
        /\ (i = Len(a) + 1 \/ a[i] < b[i])

ChildDirs(tree, p) ==
    {q \in DOMAIN tree : Len(q) = Len(p) + 1 /\ SubSeq(q, 1, Len(p)) = p}

IsUnder(q, p) == Len(q) >= Len(p) /\ SubSeq(q, 1, Len(p)) = p

(***************************************************************************)
(* scanner.rs: the walker of scan.                                         *)
(***************************************************************************)
WalkEntry(p, is_dir) == [path |-> p, is_dir |-> is_dir]

\* a filter that tests regular files instead of directories
FilterEntryFiles(ex, e) ==
    ~(~e.is_dir /\ ToStringLossy(FileNameOf(e.path)) \in ex)

\* the closure handed to filter_entry
FilterEntry(ex, e) ==
    ~(e.is_dir /\ ToStringLossy(FileNameOf(e.path)) \in ex)

\* the names in a directory, greatest first
RECURSIVE SortedNamesDescending(_)
SortedNamesDescending(S) ==
    IF S = {} THEN <<>>
    ELSE LET greatest == CHOOSE x \in S : \A y \in S : x = y \/ BytesLess(y, x)
         IN <<greatest>> \o SortedNamesDescending(S \ {greatest})

\* the names in a directory, sorted as sort_by_file_name sorts them
RECURSIVE SortedNames(_)
SortedNames(S) ==
    IF S = {} THEN <<>>
    ELSE LET least == CHOOSE x \in S : \A y \in S : x = y \/ BytesLess(x, y)
         IN <<least>> \o SortedNames(S \ {least})

ChildNames(tree, p) ==
    {q[Len(q)] : q \in ChildDirs(tree, p)}
        \cup {tree[p].entries[i].name : i \in 1..Len(tree[p].entries)}

\* WalkDir in pre-order; an entry the filter rejects is not yielded and, if
\* it is a directory, not descended into
RECURSIVE Walk(_, _, _)
RECURSIVE WalkChildren(_, _, _, _)
WalkChild(tree, ex, q) ==
    IF q \in DOMAIN tree THEN Walk(tree, ex, q)
    ELSE IF FilterEntry(ex, WalkEntry(q, FALSE)) THEN <<WalkEntry(q, FALSE)>>
    ELSE <<>>

WalkChildren(tree, ex, p, names) ==
    IF names = <<>> THEN <<>>
    ELSE WalkChild(tree, ex, p \o <<Head(names)>>)
             \o WalkChildren(tree, ex, p, Tail(names))

Walk(tree, ex, p) ==
    IF FilterEntry(ex, WalkEntry(p, TRUE))
    THEN <<WalkEntry(p, TRUE)>> \o WalkChildren(tree, ex, p, SortedNames(ChildNames(tree, p)))
    ELSE <<>>

WalkOrder(tree, ex) == Walk(tree, ex, <<>>)

(***************************************************************************)
(* scanner.rs: scan_directory.                                             *)
(***************************************************************************)
\* files.sort_by on the filename is stable: an entry goes behind every
\* entry whose filename is not greater
RECURSIVE InsertFile(_, _)
InsertFile(sorted, f) ==
    IF sorted = <<>> THEN <<f>>
    ELSE IF BytesLess(f.filename, Head(sorted).filename) THEN <<f>> \o sorted
    ELSE <<Head(sorted)>> \o InsertFile(Tail(sorted), f)

\* scanner.rs 94-108: the loop over read_dir and the sort
RECURSIVE CollectFiles(_, _)
CollectFiles(entries, acc) ==
    IF entries = <<>> THEN acc
    ELSE IF Head(entries).kind # "file" THEN CollectFiles(Tail(entries), acc)
    ELSE CollectFiles(Tail(entries),
             InsertFile(acc, FileEntry(ToStringLossy(Head(entries).name),
                                       Head(entries).size, Head(entries).ctime,
                                       Head(entries).mtime)))

\* fs::read_dir: the entries of the directory that are no directories, then
\* its subdirectories
ReadDir(tree, p) ==
    tree[p].entries
        \o [i \in 1..Cardinality(ChildDirs(tree, p)) |->
               LET name == SortedNames({r[Len(r)] : r \in ChildDirs(tree, p)})[i]
               IN  FsEntry(name, "dir", 0, tree[p \o <<name>>].mtime,
                           tree[p \o <<name>>].mtime)]

ScanDirectory(tree, p) == CollectFiles(ReadDir(tree, p), <<>>)

(***************************************************************************)
(* scanner.rs: scan, one loop iteration per step.                          *)
(***************************************************************************)
ScanStats(cached, scanned, removed) ==
    [dirs_cached |-> cached, dirs_scanned |-> scanned, dirs_removed |-> removed]

LogEvent(event, p) == [event |-> event, path |-> p]

\* a pruning that drops only the entries lying below the scanned root
ToRemoveUnderRoot(st, seen) ==
    {k \in DOMAIN st : k \notin seen
                       /\ Len(k) > Len(RootBytes)
                       /\ SubSeq(k, 1, Len(RootBytes)) = RootBytes}

\* to_remove
ToRemove(st, seen) == {k \in DOMAIN st : k \notin seen}

Insert(st, key, d) == [k \in DOMAIN st \cup {key} |-> IF k = key THEN d ELSE st[k]]

Restrict(st, keys) == [k \in keys |-> st[k]]

\* scan is called; the walker is built
ScanBegin ==
    /\ \/ scanPc = "idle" /\ run = 0
       \/ scanPc = "done" /\ run = 1
    /\ scanPc' = "walk"
    /\ run' = run + 1
    /\ scanQueue' = WalkOrder(fs, exclude)
    /\ seen_dirs' = {}
    /\ stats' = ScanStats(0, 0, 0)
    /\ scanLog' = <<>>
    /\ scanPre' = state
    /\ UNCHANGED <<state, storeOnly, restOnly, fs, exclude, change>>

\* the walker yields an entry that is not a directory
ScanSkip ==
    /\ scanPc = "walk"
    /\ scanQueue # <<>>
    /\ ~Head(scanQueue).is_dir
    /\ scanQueue' = Tail(scanQueue)
    /\ UNCHANGED <<state, storeOnly, restOnly, fs, exclude, scanPc, seen_dirs, stats, scanLog,
                   scanPre, run, change>>

\* a cache hit that brings the sizes of the record up to date
ScanCacheHitRefreshes ==
    /\ scanPc = "walk"
    /\ scanQueue # <<>>
    /\ Head(scanQueue).is_dir
    /\ DirKey(Head(scanQueue).path) \in DOMAIN state
    /\ state[DirKey(Head(scanQueue).path)].dir_mtime = fs[Head(scanQueue).path].mtime
    /\ seen_dirs' = seen_dirs \cup {DirKey(Head(scanQueue).path)}
    /\ stats' = [stats EXCEPT !.dirs_cached = @ + 1]
    /\ scanLog' = Append(scanLog, LogEvent("cache hit", Head(scanQueue).path))
    /\ state' = [state EXCEPT ![DirKey(Head(scanQueue).path)].files =
                    [i \in 1..Len(@) |->
                        [@[i] EXCEPT !.size =
                            IF i <= Len(ScanDirectory(fs, Head(scanQueue).path))
                            THEN ScanDirectory(fs, Head(scanQueue).path)[i].size
                            ELSE @]]]
    /\ scanQueue' = Tail(scanQueue)
    /\ UNCHANGED <<storeOnly, restOnly, fs, exclude, scanPc, scanPre, run, change>>

\* the walker yields a directory whose entry in the state is current
ScanCacheHit ==
    /\ scanPc = "walk"
    /\ scanQueue # <<>>
    /\ Head(scanQueue).is_dir
    /\ DirKey(Head(scanQueue).path) \in DOMAIN state
    /\ state[DirKey(Head(scanQueue).path)].dir_mtime = fs[Head(scanQueue).path].mtime
    /\ seen_dirs' = seen_dirs \cup {DirKey(Head(scanQueue).path)}
    /\ stats' = [stats EXCEPT !.dirs_cached = @ + 1]
    /\ scanLog' = Append(scanLog, LogEvent("cache hit", Head(scanQueue).path))
    /\ scanQueue' = Tail(scanQueue)
    /\ UNCHANGED <<state, storeOnly, restOnly, fs, exclude, scanPc, scanPre, run, change>>

\* the walker yields a directory that is new to the state or whose mtime moved
ScanRescan ==
    /\ scanPc = "walk"
    /\ scanQueue # <<>>
    /\ Head(scanQueue).is_dir
    /\ ~(/\ DirKey(Head(scanQueue).path) \in DOMAIN state
         /\ state[DirKey(Head(scanQueue).path)].dir_mtime = fs[Head(scanQueue).path].mtime)
    /\ seen_dirs' = seen_dirs \cup {DirKey(Head(scanQueue).path)}
    /\ stats' = [stats EXCEPT !.dirs_scanned = @ + 1]
    /\ scanLog' = Append(scanLog, LogEvent("scanning", Head(scanQueue).path))
    /\ state' = Insert(state, DirKey(Head(scanQueue).path),
                       DirEntry(fs[Head(scanQueue).path].mtime,
                                ScanDirectory(fs, Head(scanQueue).path)))
    /\ scanQueue' = Tail(scanQueue)
    /\ UNCHANGED <<storeOnly, restOnly, fs, exclude, scanPc, scanPre, run, change>>

\* a failure that removes the entries not seen so far before it returns
ScanFailPrunes ==
    /\ scanPc = "walk"
    /\ scanQueue # <<>>
    /\ scanPc' = "error"
    /\ state' = Restrict(state, DOMAIN state \ ToRemove(state, seen_dirs))
    /\ UNCHANGED <<storeOnly, restOnly, fs, exclude, scanQueue, seen_dirs, stats, scanLog,
                   scanPre, run, change>>

\* a failure that is passed over: the loop goes on with the next entry
ScanFailSkips ==
    /\ scanPc = "walk"
    /\ scanQueue # <<>>
    /\ scanQueue' = Tail(scanQueue)
    /\ UNCHANGED <<state, storeOnly, restOnly, fs, exclude, scanPc, seen_dirs, stats, scanLog,
                   scanPre, run, change>>

\* the walker, fs::metadata or scan_directory fails: scan returns the error
ScanFail ==
    /\ scanPc = "walk"
    /\ scanQueue # <<>>
    /\ scanPc' = "error"
    /\ UNCHANGED <<state, storeOnly, restOnly, fs, exclude, scanQueue, seen_dirs, stats, scanLog,
                   scanPre, run, change>>

\* the walk is over: the entries that were not seen are removed
ScanPrune ==
    /\ scanPc = "walk"
    /\ scanQueue = <<>>
    /\ stats' = [stats EXCEPT !.dirs_removed = Cardinality(ToRemove(state, seen_dirs))]
    /\ state' = Restrict(state, DOMAIN state \ ToRemove(state, seen_dirs))
    /\ scanPc' = "done"
    /\ UNCHANGED <<storeOnly, restOnly, fs, exclude, scanQueue, seen_dirs, scanLog, scanPre,
                   run, change>>

(***************************************************************************)
(* What happens to the tree and to the state between two scans.            *)
(***************************************************************************)
Between == scanPc = "done" /\ run = 1 /\ change = "none"

\* a directory's mtime moves
FsTouch ==
    /\ Between
    /\ \E p \in DOMAIN fs, m \in DirMtimes :
        /\ m # fs[p].mtime
        /\ fs' = [fs EXCEPT ![p].mtime = m]
    /\ change' = "touch"
    /\ UNCHANGED <<state, storeOnly, restOnly, exclude, scanPc, scanQueue, seen_dirs, stats,
                   scanLog, scanPre, run>>

\* a directory is created; the parent's mtime is the time of the creation
FsMkdir ==
    /\ Between
    /\ \E p \in TreePaths \ DOMAIN fs, m \in DirMtimes :
        /\ Parent(p) \in DOMAIN fs
        /\ fs' = [q \in DOMAIN fs \cup {p} |->
                    IF q = p THEN Dir(m, <<>>)
                    ELSE IF q = Parent(p) THEN Dir(m, fs[q].entries)
                    ELSE fs[q]]
    /\ change' = "mkdir"
    /\ UNCHANGED <<state, storeOnly, restOnly, exclude, scanPc, scanQueue, seen_dirs, stats,
                   scanLog, scanPre, run>>

\* a directory is removed with all below it; the parent's mtime is the time
\* of the removal
FsRemoveDir ==
    /\ Between
    /\ \E p \in DOMAIN fs \ {<<>>}, m \in DirMtimes :
        fs' = [q \in {r \in DOMAIN fs : ~IsUnder(r, p)} |->
                 IF q = Parent(p) THEN Dir(m, fs[q].entries) ELSE fs[q]]
    /\ change' = "remove"
    /\ UNCHANGED <<state, storeOnly, restOnly, exclude, scanPc, scanQueue, seen_dirs, stats,
                   scanLog, scanPre, run>>

\* a regular file is written to: its size, ctime and mtime move, the mtime of
\* the directory that holds it does not
FsModifyFile ==
    /\ Between
    /\ \E p \in DOMAIN fs : \E i \in 1..Len(fs[p].entries) :
        /\ fs[p].entries[i].kind = "file"
        /\ fs' = [fs EXCEPT ![p].entries[i].size = @ + 1,
                            ![p].entries[i].ctime = 3,
                            ![p].entries[i].mtime = 3]
    /\ change' = "modify"
    /\ UNCHANGED <<state, storeOnly, restOnly, exclude, scanPc, scanQueue, seen_dirs, stats,
                   scanLog, scanPre, run>>

\* the stored mtime of one entry is made stale
StaleEntry ==
    /\ Between
    /\ \E k \in DOMAIN state : state' = [state EXCEPT ![k].dir_mtime = @ - 1]
    /\ change' = "stale"
    /\ UNCHANGED <<storeOnly, restOnly, fs, exclude, scanPc, scanQueue, seen_dirs, stats,
                   scanLog, scanPre, run>>

(***************************************************************************)
(* The scan engine over a tree.                                            *)
(***************************************************************************)
RootEntries ==
    <<FsEntry(<<122>>, "file", 3, 1, 1), FsEntry(<<108>>, "symlink", 0, 1, 1),
      FsEntry(NameA, "file", 0, 2, 2), FsEntry(Replacement, "file", 5, 1, 1)>>

EntriesAt(p) ==
    IF p = <<>> THEN RootEntries
    ELSE IF p = <<NameX, NameA>> THEN <<FsEntry(<<99>>, "file", 7, 1, 1)>>
    ELSE IF p = <<NameX>>
         THEN <<FsEntry(NameFF, "file", 1, 1, 1), FsEntry(NameFE, "file", 2, 1, 1)>>
    ELSE <<>>

TreeShapes ==
    {S \in SUBSET TreePaths : <<>> \in S /\ \A p \in S : p = <<>> \/ Parent(p) \in S}

InitTrees ==
    {[p \in S |-> Dir(IF p = <<NameFF>> THEN m ELSE 1, EntriesAt(p))] :
        S \in TreeShapes, m \in DirMtimes}

GoneKey == <<Slash, 103>>

\* a state left by earlier runs: a root entry with a current mtime, entries
\* for directories that may be excluded now, an entry outside the root
OldState ==
    [k \in {DirKey(<<>>), DirKey(<<NameX>>), DirKey(<<NameX, NameA>>), GoneKey} |->
        IF k = DirKey(<<NameX, NameA>>) THEN DirEntry(0, <<>>) ELSE DirEntry(1, <<>>)]

Excludes == {{}, {NameX}, {RootName}}

\* nothing is saved or loaded
StoreUnused ==
    /\ disk = [p \in DiskPaths |-> NoFile]
    /\ statePath = << <<100>>, <<115>> >>
    /\ stateOrigin = 0
    /\ savePc = "idle"
    /\ saveState = EmptyState
    /\ saveData = <<>>
    /\ saveOld = NoFile
    /\ saveTmp = <<>>
    /\ saveOff = 0
    /\ loadOut = NoOutcome
    /\ loadRead = ReadErr("none")
    /\ extSrc = NoSrc
    /\ extOps = 0

InitScan ==
    /\ fs \in InitTrees
    /\ state \in {EmptyState, OldState}
    /\ exclude \in Excludes
    /\ scanPc = "idle"
    /\ scanQueue = <<>>
    /\ seen_dirs = {}
    /\ stats = ScanStats(0, 0, 0)
    /\ scanLog = <<>>
    /\ scanPre = EmptyState
    /\ run = 0
    /\ change = "none"
    /\ StoreUnused
    /\ CliUnused
    /\ ProcUnused

NextScan ==
    \/ ScanBegin
    \/ ScanSkip
    \/ ScanCacheHit
    \/ ScanRescan
    \/ ScanFail
    \/ ScanPrune
    \/ FsTouch
    \/ FsMkdir
    \/ FsRemoveDir
    \/ FsModifyFile
    \/ StaleEntry

SpecScan == InitScan /\ [][NextScan]_vars

\* scan is a sequential loop: while it runs it goes on to the next entry of
\* the walker, or past the last one to the pruning and the return
ScanStep ==
    /\ scanPc = "walk"
    /\ IF scanQueue # <<>> THEN scanQueue' = Tail(scanQueue) /\ scanPc' = "walk"
       ELSE scanQueue' = scanQueue /\ scanPc' = "done"

SpecScanFair == SpecScan /\ WF_<<scanPc, scanQueue>>(ScanStep)

(***************************************************************************)
(* Properties of the scan engine.                                          *)
(***************************************************************************)
\* the directories the scan logged with the given event
Logged(event) ==
    {scanLog[i].path : i \in {j \in 1..Len(scanLog) : scanLog[j].event = event}}

Visited == Logged("cache hit") \cup Logged("scanning")

\* scan has returned Ok and nothing was changed since
ScanDone == scanPc = "done" /\ (run = 2 \/ change = "none")

VisitedKeys == {DirKey(p) : p \in Visited}

\* C7: when a scan has succeeded and neither the tree, nor the state, nor the
\* exclusion list was changed, a second scan reports dirs_scanned = 0 and
\* dirs_removed = 0, counts as cached exactly as many directories as the state
\* has entries, and leaves the state as the first scan left it.
C7_SecondScanAllCached ==
    (ScanDone /\ run = 2 /\ change = "none") =>
        /\ stats.dirs_scanned = 0
        /\ stats.dirs_removed = 0
        /\ stats.dirs_cached = Cardinality(DOMAIN state)
        /\ state = scanPre

\* C8: in a scan a visited directory is counted as scanned exactly when the
\* state the scan was called with has no entry under the directory's path or
\* holds another dir_mtime than the directory's mtime, and is counted as
\* cached otherwise; so after one entry alone was made stale the next scan
\* counts one directory as scanned.
C8_RescanIffStale ==
    ScanDone =>
        /\ \A p \in Visited :
            (p \in Logged("scanning")) <=>
                (\/ DirKey(p) \notin DOMAIN scanPre
                 \/ scanPre[DirKey(p)].dir_mtime # fs[p].mtime)
        /\ \A p \in Visited : (p \in Logged("cache hit")) <=> (p \notin Logged("scanning"))
        /\ stats.dirs_scanned = Cardinality(Logged("scanning"))
        /\ stats.dirs_cached = Cardinality(Logged("cache hit"))
        /\ (run = 2 /\ change = "stale") => stats.dirs_scanned = 1

\* C9: after a successful scan the keys of the state are exactly the keys of
\* the directories the scan visited, the entries that are gone are exactly
\* the keys of the state the scan was called with that were not visited, and
\* dirs_removed is their number.
C9_KeysAreVisited ==
    ScanDone =>
        /\ DOMAIN state = VisitedKeys
        /\ DOMAIN scanPre \ DOMAIN state = DOMAIN scanPre \ VisitedKeys
        /\ stats.dirs_removed = Cardinality(DOMAIN scanPre \ VisitedKeys)

\* a scan pruned an entry outside the root and an entry of a removed directory
C9_Witness ==
    /\ ScanDone
    /\ DirKey(<<NameX, NameA>>) \in DOMAIN scanPre
    /\ GoneKey \in DOMAIN scanPre
    /\ stats.dirs_removed >= 2
    /\ Visited # {}

\* a directory of the tree that the exclusion list names, or that lies below one
ExcludedDir(p) ==
    \E n \in 0..Len(p) : ToStringLossy(FileNameOf(SubSeq(p, 1, n))) \in exclude

\* C10: after a successful scan no key of the state is the key of a directory
\* of the tree whose name is in the exclusion list or that lies below such a
\* directory, whatever the state held for it before, and no such directory was
\* counted as cached or as scanned.
C10_ExcludedAbsent ==
    ScanDone =>
        \A p \in DOMAIN fs :
            ExcludedDir(p) => DirKey(p) \notin DOMAIN state /\ p \notin Visited

\* a scan with an excluded directory and a directory below it, both with an
\* entry in the state the scan was called with, has pruned them
C10_Witness ==
    /\ ScanDone
    /\ exclude = {NameX}
    /\ <<NameX, NameA>> \in DOMAIN fs
    /\ {DirKey(<<NameX>>), DirKey(<<NameX, NameA>>)} \subseteq DOMAIN scanPre
    /\ stats.dirs_removed >= 2
    /\ Visited # {}

\* C11: after a successful scan the state holds an entry for the root
\* directory, whatever the exclusion list contains, and so is not empty.
C11_RootPresent ==
    ScanDone => DirKey(<<>>) \in DOMAIN state /\ state # EmptyState

\* the state holds a record the running scan wrote for directory p
WrittenByScan(p) == DirKey(p) \in DOMAIN state /\ p \in Logged("scanning")

StrictlyAscending(files) ==
    \A i \in 1..Len(files), j \in 1..Len(files) :
        i < j => BytesLess(files[i].filename, files[j].filename)

\* C12: every directory record a scan writes lists its files in strictly
\* ascending byte-wise order of filename, no filename twice, whatever the
\* order in which the directory enumerates them.
C12_FilesSorted ==
    (scanPc = "walk" \/ ScanDone) =>
        \A p \in DOMAIN fs : WrittenByScan(p) => StrictlyAscending(state[DirKey(p)].files)

(***************************************************************************)
(* tree.rs: the tree renderer.  A printed line is its indentation prefix   *)
(* (one "bar" or "blank" per ancestor below the root), its connector       *)
(* ("mid" or "last"), the kind of the entry and the printed name.          *)
(***************************************************************************)
Question == 63

\* the bytes of one char, counted from its first byte
IsContinuation(b) == b >= 128 /\ b < 192

\* maybe_escape: a char that is ASCII graphic or a space is kept, every other
\* char becomes one '?'
RECURSIVE Escape(_)
Escape(name) ==
    IF name = <<>> THEN <<>>
    ELSE IF IsContinuation(name[1]) THEN Escape(Tail(name))
    ELSE IF name[1] >= 32 /\ name[1] <= 126 THEN <<name[1]>> \o Escape(Tail(name))
    ELSE <<Question>> \o Escape(Tail(name))

MaybeEscape(name, noEscape) == IF noEscape THEN name ELSE Escape(name)

\* Path::parent and Path::file_name of a path without "." and ".." components
\* and without a trailing separator
LastSlash(path) ==
    IF \E i \in 1..Len(path) : path[i] = Slash
    THEN CHOOSE i \in 1..Len(path) :
            path[i] = Slash /\ \A j \in (i + 1)..Len(path) : path[j] # Slash
    ELSE 0

HasFileName(path) == Len(path) > LastSlash(path)

PathFileName(path) == SubSeq(path, LastSlash(path) + 1, Len(path))

HasParent(path) == path # <<>> /\ path # <<Slash>>

PathParent(path) ==
    IF LastSlash(path) = 1 THEN <<Slash>> ELSE SubSeq(path, 1, LastSlash(path) - 1)

\* Path::join of a relative name
PathJoin(dir, name) ==
    IF dir # <<>> /\ dir[Len(dir)] = Slash THEN dir \o name ELSE dir \o <<Slash>> \o name

\* a map in which the key read last replaces the names of its parent
RECURSIVE ChildrenLastWins(_)
ChildrenLastWins(keys) ==
    IF keys = <<>> THEN <<>>
    ELSE LET before == ChildrenLastWins(SubSeq(keys, 1, Len(keys) - 1))
             dir_key == keys[Len(keys)]
         IN  IF HasParent(dir_key) /\ HasFileName(dir_key)
             THEN [p \in DOMAIN before \cup {PathParent(dir_key)} |->
                     IF p = PathParent(dir_key)
                     THEN {ToStringLossy(PathFileName(dir_key))}
                     ELSE before[p]]
             ELSE before

\* tree.rs 45-56: the child-directory map, built from the keys of state.dirs in
\* the order the HashMap yields them; each key with a parent and a file name is
\* inserted into the sorted set of its parent
RECURSIVE Children(_)
Children(keys) ==
    IF keys = <<>> THEN <<>>
    ELSE LET before == Children(SubSeq(keys, 1, Len(keys) - 1))
             dir_key == keys[Len(keys)]
         IN  IF HasParent(dir_key) /\ HasFileName(dir_key)
             THEN [p \in DOMAIN before \cup {PathParent(dir_key)} |->
                     IF p = PathParent(dir_key)
                     THEN (IF p \in DOMAIN before THEN before[p] ELSE {})
                              \cup {ToStringLossy(PathFileName(dir_key))}
                     ELSE before[p]]
             ELSE before

\* tree.rs 126-127: ctx.children.get(dir_path).unwrap_or(&empty)
ChildDirsOf(children, dir_path) ==
    IF dir_path \in DOMAIN children THEN children[dir_path] ELSE {}

(***************************************************************************)
(* glob::Pattern::matches with the default options, for patterns made of   *)
(* literal chars, '?' and '*'.                                             *)
(***************************************************************************)
Star == 42

RECURSIVE GlobMatches(_, _)
GlobMatches(pat, name) ==
    IF pat = <<>> THEN name = <<>>
    ELSE IF pat[1] = Star
         THEN \E n \in 0..Len(name) : GlobMatches(Tail(pat), SubSeq(name, n + 1, Len(name)))
    ELSE /\ name # <<>>
         /\ (pat[1] = Question \/ pat[1] = name[1])
         /\ GlobMatches(Tail(pat), Tail(name))

(***************************************************************************)
(* The collator of tree.rs 58-61: root collation, strength quaternary,     *)
(* alternate handling shifted.  Spaces and punctuation are ignored on the  *)
(* first three levels and compared on the fourth; letters compare without  *)
(* case on the first level and lower case before upper case on the third.  *)
(***************************************************************************)
IsUpper(b) == b >= 65 /\ b <= 90
IsLower(b) == b >= 97 /\ b <= 122
IsDigit(b) == b >= 48 /\ b <= 57
IsVariable(b) == b >= 32 /\ b <= 126 /\ ~IsUpper(b) /\ ~IsLower(b) /\ ~IsDigit(b)

PrimaryWeight(b) ==
    IF IsDigit(b) THEN b - 48
    ELSE IF IsUpper(b) THEN 10 + (b - 65)
    ELSE IF IsLower(b) THEN 10 + (b - 97)
    ELSE 100 + b

NotVariable(b) == ~IsVariable(b)

TertiaryWeight(b) == IF IsUpper(b) THEN 1 ELSE 0

PrimaryWeights(s) == [i \in 1..Len(s) |-> PrimaryWeight(s[i])]

TertiaryWeights(s) == [i \in 1..Len(s) |-> TertiaryWeight(s[i])]

\* -1, 0 or 1 as the first sequence of weights is before, equal to or after
\* the second
CompareWeights(a, b) ==
    IF a = b THEN 0
    ELSE IF \E i \in 1..(Len(a) + 1) :
               /\ i <= Len(b)
               /\ \A j \in 1..(i - 1) : a[j] = b[j]
               /\ (i = Len(a) + 1 \/ a[i] < b[i])
         THEN -1
    ELSE 1

CollatorLevels(p, t, q) == IF p # 0 THEN p ELSE IF t # 0 THEN t ELSE q

\* collator.compare
CollatorCompare(a, b) ==
    CollatorLevels(
        CompareWeights(PrimaryWeights(SelectSeq(a, NotVariable)),
                       PrimaryWeights(SelectSeq(b, NotVariable))),
        CompareWeights(TertiaryWeights(SelectSeq(a, NotVariable)),
                       TertiaryWeights(SelectSeq(b, NotVariable))),
        CompareWeights(SelectSeq(a, IsVariable), SelectSeq(b, IsVariable)))

(***************************************************************************)
(* tree.rs: merge_entries, render_dir, render_tree.                        *)
(***************************************************************************)
Entry(kind, name) == [kind |-> kind, name |-> name]

TreeContext(st, children, patterns, noEscape, showHidden) ==
    [state |-> st, children |-> children, patterns |-> patterns, no_escape |-> noEscape,
     show_hidden |-> showHidden]

\* a filter that hides dot names whatever show_hidden is
KeptNeverHidden(ctx, name) ==
    /\ ~StartsWithDot(name)
    /\ ~(\E i \in 1..Len(ctx.patterns) : GlobMatches(ctx.patterns[i], name))

\* tree.rs 99-105: the filter of merge_entries
Kept(ctx, name) ==
    /\ ~(~ctx.show_hidden /\ StartsWithDot(name))
    /\ ~(\E i \in 1..Len(ctx.patterns) : GlobMatches(ctx.patterns[i], name))

\* entries.sort_by is stable: an entry goes behind every entry that does not
\* compare greater
RECURSIVE InsertEntry(_, _)
InsertEntry(sorted, e) ==
    IF sorted = <<>> THEN <<e>>
    ELSE IF CollatorCompare(e.name, Head(sorted).name) = -1 THEN <<e>> \o sorted
    ELSE <<Head(sorted)>> \o InsertEntry(Tail(sorted), e)

RECURSIVE SortEntries(_, _)
SortEntries(entries, acc) ==
    IF entries = <<>> THEN acc
    ELSE SortEntries(Tail(entries), InsertEntry(acc, Head(entries)))

FileEntriesOf(files) == [i \in 1..Len(files) |-> Entry("file", files[i])]

DirEntriesOf(names) == [i \in 1..Len(names) |-> Entry("dir", names[i])]

KeptEntry(ctx, e) == Kept(ctx, e.name)

RECURSIVE FilterEntries(_, _)
FilterEntries(ctx, entries) ==
    IF entries = <<>> THEN <<>>
    ELSE IF KeptEntry(ctx, Head(entries))
         THEN <<Head(entries)>> \o FilterEntries(ctx, Tail(entries))
    ELSE FilterEntries(ctx, Tail(entries))

\* a merge that filters and leaves the files before the directories
MergeEntriesGrouped(files, child_dirs, ctx) ==
    FilterEntries(ctx, FileEntriesOf(files) \o DirEntriesOf(SortedNames(child_dirs)))

\* tree.rs 94-110
MergeEntries(files, child_dirs, ctx) ==
    SortEntries(FilterEntries(ctx, FileEntriesOf(files) \o DirEntriesOf(SortedNames(child_dirs))),
                <<>>)

\* tree.rs 120-125: the filenames of the record of a directory
FileNamesOf(st, dir_key) ==
    IF dir_key \in DOMAIN st
    THEN [i \in 1..Len(st[dir_key].files) |-> st[dir_key].files[i].filename]
    ELSE <<>>

Line(prefix, connector, kind, name) ==
    [prefix |-> prefix, connector |-> connector, kind |-> kind, name |-> name]

Rendering(out, dir_count, file_count) ==
    [out |-> out, dir_count |-> dir_count, file_count |-> file_count]

\* a counting that takes every printed entry for a file
CountAsFile(acc, e, line) ==
    Rendering(Append(acc.out, line), acc.dir_count, acc.file_count + 1)

\* tree.rs 136-153: the line is printed and the entry counted
CountEntry(acc, e, line) ==
    Rendering(Append(acc.out, line),
              acc.dir_count + (IF e.kind = "dir" THEN 1 ELSE 0),
              acc.file_count + (IF e.kind = "file" THEN 1 ELSE 0))

RECURSIVE RenderDir(_, _, _, _)
RECURSIVE RenderEntries(_, _, _, _, _, _)
\* a descent that draws a bar under every directory
RenderChildBar(ctx, dir_path, prefix, e, is_last, acc) ==
    IF e.kind = "dir"
    THEN RenderDir(ctx, PathJoin(dir_path, e.name), Append(prefix, "bar"), acc)
    ELSE acc

\* tree.rs 154-161: a directory entry is descended into
RenderChild(ctx, dir_path, prefix, e, is_last, acc) ==
    IF e.kind = "dir"
    THEN RenderDir(ctx, PathJoin(dir_path, e.name),
                   Append(prefix, IF is_last THEN "blank" ELSE "bar"), acc)
    ELSE acc

\* tree.rs 131-164: the loop over the entries
RenderEntries(ctx, dir_path, prefix, entries, i, acc) ==
    IF i > Len(entries) THEN acc
    ELSE RenderEntries(ctx, dir_path, prefix, entries, i + 1,
             RenderChild(ctx, dir_path, prefix, entries[i], i = Len(entries),
                 CountEntry(acc, entries[i],
                     Line(prefix, IF i = Len(entries) THEN "last" ELSE "mid",
                          entries[i].kind,
                          MaybeEscape(entries[i].name, ctx.no_escape)))))

RenderDir(ctx, dir_path, prefix, acc) ==
    RenderEntries(ctx, dir_path, prefix,
                  MergeEntries(FileNamesOf(ctx.state, ToStringLossy(dir_path)),
                               ChildDirsOf(ctx.children, dir_path), ctx),
                  1, acc)

\* render_tree: the root line, then the entries; dir_count starts at 1
RenderTree(st, keys, root, patterns, noEscape, showHidden) ==
    RenderDir(TreeContext(st, Children(keys), patterns, noEscape, showHidden), root, <<>>,
              Rendering(<<Line(<<>>, "root", "root", ToStringLossy(root))>>, 1, 0))

(***************************************************************************)
(* The renderer over a state.                                              *)
(***************************************************************************)
NotRendered == Rendering(<<>>, 0, 0)

KeyX == PathJoin(RootBytes, NameX)
KeyXA == PathJoin(KeyX, NameA)
KeyHidden == PathJoin(RootBytes, <<Dot, 104>>)
KeyB == PathJoin(RootBytes, <<66>>)

TreeKeys == {RootBytes, KeyX, KeyXA, KeyHidden, KeyB, GoneKey}

Named(filename) == FileEntry(filename, 1, 1, 1)

FilesOfKey(k) ==
    IF k = RootBytes THEN <<Named(<<Dot, 99>>), Named(NameA), Named(NameX)>>
    ELSE IF k = KeyX THEN <<Named(Replacement)>>
    ELSE IF k = KeyXA THEN <<Named(<<99>>)>>
    ELSE IF k = KeyHidden THEN <<Named(<<100>>)>>
    ELSE <<>>

TreeStates == {[k \in K |-> DirEntry(1, FilesOfKey(k))] : K \in SUBSET TreeKeys}

PatternLists == {<<>>, <<NameX>>, << <<Star>> >>, << <<Question, Star>>, <<66>> >>}

\* render_tree is called
RenderTreeCall ==
    /\ rendered = NotRendered
    /\ \E keys \in KeyOrders(state) :
          rendered' = RenderTree(state, keys, RootBytes, ignore, no_escape, show_hidden)
    /\ stdout' = rendered'.out
    /\ UNCHANGED <<state, storeOnly, scanOnly, procOnly, cliPc, cliCmd, rootKind, verbose, ignoreArgs, ignore,
                   no_escape, show_hidden, cliLog, stderr, csvFile, exitCode, files0>>

InitTree ==
    /\ ProcUnused
    /\ state \in TreeStates
    /\ ignoreArgs = <<>>
    /\ ignore \in PatternLists
    /\ no_escape \in BOOLEAN
    /\ show_hidden \in BOOLEAN
    /\ rendered = NotRendered
    /\ stdout = <<>>
    /\ cliPc = "unused"
    /\ cliCmd = "none"
    /\ rootKind = "dir"
    /\ verbose = FALSE
    /\ cliLog = <<>>
    /\ stderr = <<>>
    /\ csvFile = NoFile
    /\ exitCode = -1
    /\ files0 = <<>>
    /\ StoreUnused
    /\ ScanUnused

NextTree == RenderTreeCall

SpecTree == InitTree /\ [][NextTree]_vars

(***************************************************************************)
(* Properties of the renderer.                                             *)
(***************************************************************************)
PrintedLines(kind) == {i \in 1..Len(rendered.out) : rendered.out[i].kind = kind}

CurrentContext ==
    TreeContext(state, Children(SortedNames(DOMAIN state)), ignore, no_escape, show_hidden)

\* a directory of the state that is reached from the root through entries
\* that are not filtered out
RECURSIVE Shown(_)
Shown(k) ==
    \/ k = RootBytes
    \/ /\ k \in DOMAIN state
       /\ Len(k) > Len(RootBytes)
       /\ HasFileName(k)
       /\ Kept(CurrentContext, PathFileName(k))
       /\ Shown(PathParent(k))

ShownDirs == {k \in DOMAIN state : k # RootBytes /\ Shown(k)}

KeptFiles(k) ==
    IF k \in DOMAIN state
    THEN Cardinality({i \in 1..Len(state[k].files) :
                        Kept(CurrentContext, state[k].files[i].filename)})
    ELSE 0

RECURSIVE SumKeptFiles(_)
SumKeptFiles(K) ==
    IF K = {} THEN 0
    ELSE LET k == CHOOSE x \in K : TRUE IN KeptFiles(k) + SumKeptFiles(K \ {k})

\* C20: render_tree returns 1 plus the number of directory entries it printed
\* and the number of file entries it printed; what is filtered out, and all
\* beneath a filtered-out directory, is neither printed nor counted; an empty
\* state or a root without entries gives (1, 0).
C20_Counts ==
    rendered # NotRendered =>
        /\ rendered.dir_count = 1 + Cardinality(PrintedLines("dir"))
        /\ rendered.file_count = Cardinality(PrintedLines("file"))
        /\ rendered.dir_count = 1 + Cardinality(ShownDirs)
        /\ rendered.file_count = SumKeptFiles(ShownDirs \cup {RootBytes})
        /\ (state = EmptyState \/ Len(rendered.out) = 1) =>
               (rendered.dir_count = 1 /\ rendered.file_count = 0)

\* a rendering that left out a directory with a directory and files beneath it,
\* and printed and counted other directories and files
C20_Witness ==
    /\ rendered # NotRendered
    /\ ignore = <<NameX>>
    /\ {KeyX, KeyXA, KeyB} \subseteq DOMAIN state
    /\ rendered.dir_count >= 2
    /\ rendered.file_count >= 1

(***************************************************************************)
(* csv_writer.rs: write_csv.  The file is its records, a record its fields.*)
(***************************************************************************)
RECURSIVE Digits(_)
Digits(n) == IF n < 10 THEN <<48 + n>> ELSE Digits(n \div 10) \o <<48 + (n % 10)>>

\* i64::to_string and u64::to_string
ToDecimal(i) == IF i < 0 THEN <<45>> \o Digits(0 - i) ELSE Digits(i)

CsvHeader == <<<<112, 97, 116, 104>>, <<115, 105, 122, 101>>,
               <<99, 116, 105, 109, 101>>, <<109, 116, 105, 109, 101>>>>

CsvRecord(dir, file) ==
    <<ToStringLossy(PathJoin(dir, file.filename)), ToDecimal(file.size),
      ToDecimal(file.ctime), ToDecimal(file.mtime)>>

\* records of the files in filename order
CsvFileRecordsSorted(dir, files) ==
    LET names == SortedNames({files[i].filename : i \in 1..Len(files)})
    IN  [i \in 1..Len(names) |->
            CsvRecord(dir, files[CHOOSE j \in 1..Len(files) : files[j].filename = names[i]])]

CsvFileRecords(dir, files) == [i \in 1..Len(files) |-> CsvRecord(dir, files[i])]

RECURSIVE CsvRecords(_, _, _)
CsvRecords(st, dirs, acc) ==
    IF dirs = <<>> THEN acc
    ELSE CsvRecords(st, Tail(dirs), acc \o CsvFileRecords(Head(dirs), st[Head(dirs)].files))

WriteCsv(st) == CsvRecords(st, SortedNames(DOMAIN st), <<CsvHeader>>)

(***************************************************************************)
(* bin/dir_tree_scanner.rs, cli.rs: run_csv and run_tree, one step of the  *)
(* run at a time.                                                          *)
(***************************************************************************)
Msg(kind, detail) == [kind |-> kind, detail |-> detail]

When(cond, msgs) == IF cond THEN msgs ELSE <<>>

\* a check that only asks whether the root exists
ValidateExists(kind) == kind # "missing"

\* root.is_dir()
ValidateDirectory(kind) == kind = "dir"

\* a run_scan that goes on after an error
RunScanContinues(pc) == FALSE

\* cli.rs 40-43: run_scan ends the process when scan returns an error
RunScanExits(pc) == pc = "error"

\* a save_state that goes on after an error
SaveStateContinues(pc) == FALSE

\* cli.rs 63-66: save_state ends the process when save returns an error
SaveStateExits(pc) == pc = "failed"

\* the order of the steps with the state persisted before any output
CliAfterPersistFirst(cmd, step) ==
    IF step = "load" THEN "scan"
    ELSE IF step = "scan" THEN "save"
    ELSE IF step = "save" THEN (IF cmd = "csv" THEN "csv" ELSE "render")
    ELSE "exit"

\* the step that follows a completed step in run_csv and in run_tree
CliAfter(cmd, step) ==
    IF step = "load" THEN "scan"
    ELSE IF step = "scan" THEN (IF cmd = "csv" THEN "csv" ELSE "save")
    ELSE IF step = "csv" THEN "save"
    ELSE IF step = "save" THEN (IF cmd = "csv" THEN "exit" ELSE "render")
    ELSE "exit"

\* the messages of load_state
LoadMessages(out, v) ==
    IF out.tag = "Loaded" THEN When(v, <<Msg("loaded state", "")>>)
    ELSE IF out.tag = "NotFound" THEN When(v, <<Msg("no previous state", "")>>)
    ELSE <<Msg("warning", out.reason)>>

\* a completed step: the run goes on, or returns from main
CliGoOn(step) ==
    /\ cliLog' = Append(cliLog, step)
    /\ cliPc' = CliAfter(cliCmd, step)
    /\ exitCode' = IF CliAfter(cliCmd, step) = "exit" THEN 0 ELSE exitCode

\* process::exit(1)
CliExit ==
    /\ cliPc' = "exit"
    /\ exitCode' = 1
    /\ cliLog' = cliLog

\* run_csv 103-106, run_tree 134-145
CliValidate ==
    /\ cliPc = "start"
    /\ IF ValidateDirectory(rootKind)
       THEN /\ cliPc' = "load"
            /\ exitCode' = exitCode
            /\ stderr' = stderr \o When(cliCmd = "tree" /\ verbose,
                                        <<Msg("root is", ""), Msg("state_path is", "")>>)
       ELSE /\ cliPc' = "exit"
            /\ exitCode' = 1
            /\ stderr' = stderr \o When(cliCmd = "tree" /\ verbose, <<Msg("root is", "")>>)
                                \o <<Msg("error: not a directory", "")>>
    /\ UNCHANGED <<state, storeOnly, scanOnly, procOnly, cliCmd, rootKind, verbose, ignoreArgs, ignore, no_escape,
                   show_hidden, cliLog, csvFile, stdout, rendered, files0>>

\* cli.rs 9: ScanState::load
CliLoad ==
    /\ cliPc = "load"
    /\ loadOut = NoOutcome
    /\ LoadState

\* cli.rs 10-26: the messages of load_state; a panic ends the process
CliLoaded ==
    /\ cliPc = "load"
    /\ loadOut # NoOutcome
    /\ IF loadOut.tag = "Panic"
       THEN cliPc' = "exit" /\ exitCode' = 101 /\ cliLog' = cliLog /\ stderr' = stderr
       ELSE CliGoOn("load") /\ stderr' = stderr \o LoadMessages(loadOut, verbose)
    /\ UNCHANGED <<state, storeOnly, scanOnly, procOnly, cliCmd, rootKind, verbose, ignoreArgs, ignore, no_escape,
                   show_hidden, csvFile, stdout, rendered, files0>>

CliScanBegin == cliPc = "scan" /\ scanPc = "idle" /\ ScanBegin
CliScanSkip == cliPc = "scan" /\ ScanSkip
CliScanCacheHit == cliPc = "scan" /\ ScanCacheHit
CliScanRescan == cliPc = "scan" /\ ScanRescan
CliScanFail == cliPc = "scan" /\ ScanFail
CliScanPrune == cliPc = "scan" /\ ScanPrune

\* cli.rs 31-44: scan has returned
CliScanReturned ==
    /\ cliPc = "scan"
    /\ scanPc \in {"done", "error"}
    /\ IF RunScanExits(scanPc)
       THEN CliExit /\ stderr' = Append(stderr, Msg("error scanning", ""))
       ELSE CliGoOn("scan") /\ stderr' = stderr \o When(verbose, <<Msg("dirs:", "")>>)
    /\ UNCHANGED <<state, storeOnly, scanOnly, procOnly, cliCmd, rootKind, verbose, ignoreArgs, ignore, no_escape,
                   show_hidden, csvFile, stdout, rendered, files0>>

\* run_csv 114-120: write_csv succeeds
CliWriteCsv ==
    /\ cliPc = "csv"
    /\ csvFile' = File(WriteCsv(state))
    /\ CliGoOn("csv")
    /\ stderr' = stderr \o When(verbose, <<Msg("wrote", "")>>)
    /\ UNCHANGED <<state, storeOnly, scanOnly, procOnly, cliCmd, rootKind, verbose, ignoreArgs, ignore, no_escape,
                   show_hidden, stdout, rendered, files0>>

\* run_csv 114-117: write_csv fails, before or after File::create emptied the file
CliWriteCsvFail ==
    /\ cliPc = "csv"
    /\ csvFile' \in {csvFile, File(<<>>)}
    /\ CliExit
    /\ stderr' = Append(stderr, Msg("error writing CSV", ""))
    /\ UNCHANGED <<state, storeOnly, scanOnly, procOnly, cliCmd, rootKind, verbose, ignoreArgs, ignore, no_escape,
                   show_hidden, stdout, rendered, files0>>

CliSaveBegin == cliPc = "save" /\ SaveBegin
CliSaveCreateTmp == cliPc = "save" /\ SaveCreateTmp
CliSaveWrite == cliPc = "save" /\ SaveWrite
CliSaveWriteFail == cliPc = "save" /\ SaveWriteFail
CliSaveRename == cliPc = "save" /\ SaveRename
CliSaveRenameFail == cliPc = "save" /\ SaveRenameFail

\* cli.rs 62-70: save has returned
CliSaveReturned ==
    /\ cliPc = "save"
    /\ savePc \in {"ok", "failed"}
    /\ IF SaveStateExits(savePc)
       THEN CliExit /\ stderr' = Append(stderr, Msg("error saving state", ""))
       ELSE CliGoOn("save") /\ stderr' = stderr \o When(verbose, <<Msg("saved state", "")>>)
    /\ UNCHANGED <<state, storeOnly, scanOnly, procOnly, cliCmd, rootKind, verbose, ignoreArgs, ignore, no_escape,
                   show_hidden, csvFile, stdout, rendered, files0>>

Summary(dir_count, file_count) ==
    [prefix |-> <<>>, connector |-> "summary", kind |-> "summary",
     name |-> ToDecimal(dir_count) \o <<32>> \o ToDecimal(file_count)]

(***************************************************************************)
(* cli.rs: parse_ignore_patterns.                                          *)
(***************************************************************************)
LeftBracket == 91
RightBracket == 93
Bang == 33

\* the least position from `from` on that holds `]`, 0 if there is none
ClosingFrom(chars, from) ==
    LET at == {j \in from..Len(chars) : chars[j] = RightBracket}
    IN  IF at = {} THEN 0 ELSE CHOOSE j \in at : \A h \in at : j <= h

\* the number of `*` in a row from position i on
RECURSIVE StarsFrom(_, _)
StarsFrom(chars, i) ==
    IF i <= Len(chars) /\ chars[i] = Star THEN 1 + StarsFrom(chars, i + 1) ELSE 0

\* glob::Pattern::new(p).is_ok(): a `[` opens a class that is closed after at
\* least one character; `**` is a whole path component; no `***`
RECURSIVE GlobValidFrom(_, _)
GlobValidFrom(chars, i) ==
    IF i > Len(chars) THEN TRUE
    ELSE IF chars[i] = Star
    THEN LET count == StarsFrom(chars, i)
             next == i + count
         IN  IF count > 2 THEN FALSE
             ELSE IF count = 2
             THEN /\ (i = 1 \/ chars[i - 1] = Slash)
                  /\ (next > Len(chars) \/ chars[next] = Slash)
                  /\ GlobValidFrom(chars, IF next > Len(chars) THEN next ELSE next + 1)
             ELSE GlobValidFrom(chars, next)
    ELSE IF chars[i] = LeftBracket
    THEN LET from == IF i + 3 <= Len(chars) /\ chars[i + 1] = Bang THEN i + 3
                     ELSE IF i + 2 <= Len(chars) /\ chars[i + 1] # Bang THEN i + 2
                     ELSE 0
             closing == IF from = 0 THEN 0 ELSE ClosingFrom(chars, from)
         IN  closing # 0 /\ GlobValidFrom(chars, closing + 1)
    ELSE GlobValidFrom(chars, i + 1)

GlobValid(p) == GlobValidFrom(p, 1)

\* a parser that ends at the first pattern that is not valid
RECURSIVE ParseUntilInvalid(_)
ParseUntilInvalid(args) ==
    IF args = <<>> \/ ~GlobValid(Head(args)) THEN <<>>
    ELSE <<Head(args)>> \o ParseUntilInvalid(Tail(args))

\* cli.rs 48-59: filter_map keeps the patterns that compile, in their order
ParseIgnorePatterns(args) == SelectSeq(args, GlobValid)

\* cli.rs 54: one warning per pattern that does not compile
ParseWarnings(args) ==
    LET invalid == SelectSeq(args, LAMBDA p : ~GlobValid(p))
    IN  [i \in 1..Len(invalid) |-> Msg("warning: invalid glob pattern", invalid[i])]

\* run_tree 151-154: the patterns, the tree and the summary line
CliRender ==
    /\ cliPc = "render"
    /\ ignore' = ParseIgnorePatterns(ignoreArgs)
    /\ stderr' = stderr \o ParseWarnings(ignoreArgs)
    /\ \E keys \in KeyOrders(state) :
          rendered' = RenderTree(state, keys, RootBytes, ignore', no_escape, show_hidden)
    /\ stdout' = Append(rendered'.out, Summary(rendered'.dir_count, rendered'.file_count))
    /\ CliGoOn("render")
    /\ UNCHANGED <<state, storeOnly, scanOnly, procOnly, cliCmd, rootKind, verbose, ignoreArgs,
                   no_escape, show_hidden, csvFile, files0>>

(***************************************************************************)
(* A command-line run.                                                     *)
(***************************************************************************)
OldCsv == File(<<CsvHeader>>)

\* the state file of an earlier run
OldStateFile == File(SaveBytes(OldState, CHOOSE order \in KeyOrders(OldState) : TRUE))

\* the --ignore arguments of the runs: none, one that does not compile, and
\* two that do not compile ("[" and "a**") among three that do
IgnoreArgLists ==
    {<<>>, << <<LeftBracket>> >>,
     <<NameX, <<LeftBracket>>, <<122>>, <<97, Star, Star>>, NameA>>}

\* the trees of the runs: a bare root, a chain of two directories, two
\* directories whose names are not UTF-8
CliShapes == {{<<>>}, {<<>>, <<NameX>>, <<NameX, NameA>>}, {<<>>, <<NameFE>>, <<NameFF>>}}

CliTrees == {t \in InitTrees : DOMAIN t \in CliShapes}

InitCli ==
    /\ ProcUnused
    /\ cliPc = "start"
    /\ cliCmd \in {"csv", "tree"}
    /\ rootKind \in {"dir", "file", "missing"}
    /\ verbose \in BOOLEAN
    /\ ignoreArgs \in IF cliCmd = "tree" THEN IgnoreArgLists ELSE {<<>>}
    /\ ignore = <<>>
    /\ no_escape = FALSE
    /\ show_hidden = FALSE
    /\ cliLog = <<>>
    /\ stderr = <<>>
    /\ csvFile \in IF cliCmd = "csv" THEN {NoFile, OldCsv} ELSE {NoFile}
    /\ stdout = <<>>
    /\ rendered = NotRendered
    /\ exitCode = -1
    /\ fs \in IF rootKind = "dir" THEN CliTrees ELSE {<<>>}
    /\ exclude \in IF rootKind = "dir" THEN {{}, {NameX}} ELSE {{}}
    /\ scanPc = "idle"
    /\ scanQueue = <<>>
    /\ seen_dirs = {}
    /\ stats = ScanStats(0, 0, 0)
    /\ scanLog = <<>>
    /\ scanPre = EmptyState
    /\ run = 0
    /\ change = "none"
    /\ statePath = << <<100>>, <<115>> >>
    /\ \E old \in {NoFile, File(Garbage), OldStateFile} :
          disk = [p \in DiskPaths |-> IF p = statePath THEN old ELSE NoFile]
    /\ files0 = [store |-> disk, csv |-> csvFile]
    /\ state = EmptyState
    /\ stateOrigin = 0
    /\ savePc = "idle"
    /\ saveState = EmptyState
    /\ saveData = <<>>
    /\ saveOld = NoFile
    /\ saveTmp = <<>>
    /\ saveOff = 0
    /\ loadOut = NoOutcome
    /\ loadRead = ReadErr("none")
    /\ extSrc = NoSrc
    /\ extOps = 0

NextCli ==
    \/ CliValidate
    \/ CliLoad
    \/ CliLoaded
    \/ CliScanBegin
    \/ CliScanSkip
    \/ CliScanCacheHit
    \/ CliScanRescan
    \/ CliScanFail
    \/ CliScanPrune
    \/ CliScanReturned
    \/ CliWriteCsv
    \/ CliWriteCsvFail
    \/ CliSaveBegin
    \/ CliSaveCreateTmp
    \/ CliSaveWrite
    \/ CliSaveWriteFail
    \/ CliSaveRename
    \/ CliSaveRenameFail
    \/ CliSaveReturned
    \/ CliRender

SpecCli == InitCli /\ [][NextCli]_vars

(***************************************************************************)
(* Two runs of the tree subcommand, one after the other, on a tree that    *)
(* nobody else touches.  The state file is at its default place, in the    *)
(* scanned root, or at a place given with --state, outside of it.          *)
(***************************************************************************)
RunsPaths ==
    DiskPaths \cup {ResolveStatePath(NoPath, <<RootName>>),
                    TmpPathFor(ResolveStatePath(NoPath, <<RootName>>))}

RunsTrees == {t \in InitTrees : DOMAIN t \in {{<<>>}, {<<>>, <<NameX>>, <<NameX, NameA>>}}}

InitRuns ==
    /\ ProcUnused
    /\ cliPc = "start"
    /\ cliCmd = "tree"
    /\ rootKind = "dir"
    /\ verbose = FALSE
    /\ ignoreArgs = <<>>
    /\ ignore = <<>>
    /\ no_escape = FALSE
    /\ show_hidden \in BOOLEAN
    /\ cliLog = <<>>
    /\ stderr = <<>>
    /\ csvFile = NoFile
    /\ stdout = <<>>
    /\ rendered = NotRendered
    /\ exitCode = -1
    /\ fs \in RunsTrees
    /\ exclude \in {{}, {NameX}}
    /\ scanPc = "idle"
    /\ scanQueue = <<>>
    /\ seen_dirs = {}
    /\ stats = ScanStats(0, 0, 0)
    /\ scanLog = <<>>
    /\ scanPre = EmptyState
    /\ run = 0
    /\ change = "none"
    /\ \E given \in {NoPath, << <<100>>, <<115>> >>} :
          statePath = ResolveStatePath(given, <<RootName>>)
    /\ disk = [p \in RunsPaths |-> NoFile]
    /\ files0 = [store |-> disk, csv |-> csvFile]
    /\ state = EmptyState
    /\ stateOrigin = 0
    /\ savePc = "idle"
    /\ saveState = EmptyState
    /\ saveData = <<>>
    /\ saveOld = NoFile
    /\ saveTmp = <<>>
    /\ saveOff = 0
    /\ loadOut = NoOutcome
    /\ loadRead = ReadErr("none")
    /\ extSrc = NoSrc
    /\ extOps = 0

\* the first run has returned 0; the command is run again
CliAgain ==
    /\ cliPc = "exit"
    /\ exitCode = 0
    /\ \A i \in 1..Len(cliLog) : cliLog[i] # "again"
    /\ cliPc' = "start"
    /\ exitCode' = -1
    /\ cliLog' = Append(cliLog, "again")
    /\ stderr' = <<>>
    /\ stdout' = <<>>
    /\ rendered' = NotRendered
    /\ state' = EmptyState
    /\ stateOrigin' = 0
    /\ savePc' = "idle"
    /\ loadOut' = NoOutcome
    /\ loadRead' = ReadErr("none")
    /\ scanPc' = "idle"
    /\ run' = 0
    /\ UNCHANGED <<procOnly, cliCmd, rootKind, verbose, ignoreArgs, ignore, no_escape, show_hidden, csvFile,
                   files0, disk, statePath, saveState, saveData, saveOld, saveTmp, saveOff,
                   extSrc, extOps, fs, exclude, scanQueue, seen_dirs, stats, scanLog, scanPre,
                   change>>

NextRuns ==
    \/ CliValidate
    \/ CliLoad
    \/ CliLoaded
    \/ CliScanBegin
    \/ CliScanSkip
    \/ CliScanCacheHit
    \/ CliScanRescan
    \/ CliScanFail
    \/ CliScanPrune
    \/ CliScanReturned
    \/ CliSaveBegin
    \/ CliSaveCreateTmp
    \/ CliSaveWrite
    \/ CliSaveWriteFail
    \/ CliSaveRename
    \/ CliSaveRenameFail
    \/ CliSaveReturned
    \/ CliRender
    \/ CliAgain

SpecRuns == InitRuns /\ [][NextRuns]_vars

(***************************************************************************)
(* Properties of the command-line runs.                                    *)
(***************************************************************************)
Reported(kind) == \E i \in 1..Len(stderr) : stderr[i].kind = kind

Done(step) == \E i \in 1..Len(cliLog) : cliLog[i] = step

FilesUntouched == disk = files0.store /\ csvFile = files0.csv

\* C13: when the scan fails in a run of csv or tree, the error is reported,
\* the exit status is a failure, nothing was saved, no CSV was written, no
\* tree and no summary was printed, and the state file is what it was when
\* the run began.
C13_ScanFailureAborts ==
    (cliPc = "exit" /\ scanPc = "error") =>
        /\ exitCode = 1
        /\ Reported("error scanning")
        /\ ~Reported("dirs:")
        /\ savePc = "idle"
        /\ FilesUntouched
        /\ stdout = <<>>
        /\ rendered = NotRendered
        /\ cliLog = <<"load">>

\* a run whose scan failed after it had loaded a state file and rescanned a
\* directory
C13_Witness ==
    /\ cliPc = "exit"
    /\ scanPc = "error"
    /\ verbose
    /\ files0.store[statePath] = OldStateFile
    /\ Logged("scanning") # {}
    /\ state # scanPre

\* C14: when save returns an error, from the write of the temporary file or
\* from the rename, the file at the target path holds what it held when save
\* was called, and the run ends with a failure status.
C14_SaveFailureKeepsTarget ==
    /\ savePc = "failed" => disk[statePath] = saveOld
    /\ (cliPc = "exit" /\ savePc = "failed") =>
          exitCode = 1 /\ Reported("error saving state")

\* a run that ended after the write of the temporary file failed half way,
\* with a state file in place
C14_Witness ==
    /\ cliPc = "exit"
    /\ savePc = "failed"
    /\ saveOld.exists
    /\ saveOff > 0
    /\ saveOff < Len(saveData)

\* save returned the error of the rename
RenameFailed == savePc = "failed" /\ saveData # <<>> /\ saveOff = Len(saveData)

AfterLoad == cliPc \in {"scan", "csv", "save", "render"} /\ savePc = "idle"

\* C16: when load returns Invalid, a warning with the reason is written with
\* and without --verbose, the run goes on from an empty state, and the scan
\* counts no directory as cached; when load returns NotFound the run goes on
\* from an empty state; no outcome of load ends the run.
C16_LoadFallback ==
    /\ (AfterLoad /\ loadOut.tag = "Invalid") =>
          /\ \E i \in 1..Len(stderr) : stderr[i] = Msg("warning", loadOut.reason)
          /\ scanPre = EmptyState
          /\ (scanPc = "idle" => state = EmptyState)
          /\ (scanPc = "done" => stats.dirs_cached = 0)
    /\ (AfterLoad /\ loadOut.tag = "NotFound") =>
          /\ scanPre = EmptyState
          /\ (scanPc = "idle" => state = EmptyState)
    /\ (cliPc = "exit" /\ rootKind = "dir") => Done("load")

\* C17: when the root argument is not a directory the run ends with a failure
\* status and has done nothing else: no load, no scan, no change to the state
\* file, the temporary file or the CSV file, nothing on stdout.
C17_RootValidatedFirst ==
    (rootKind # "dir" /\ cliPc # "start") =>
        /\ cliPc = "exit"
        /\ exitCode = 1
        /\ cliLog = <<>>
        /\ loadOut = NoOutcome
        /\ scanPc = "idle"
        /\ run = 0
        /\ savePc = "idle"
        /\ FilesUntouched
        /\ stdout = <<>>

\* a run of tree on a root that is a regular file, with a state file in place
C17_Witness ==
    /\ cliPc = "exit"
    /\ rootKind = "file"
    /\ cliCmd = "tree"
    /\ verbose
    /\ disk[statePath].exists

IsPrefix(s, t) == Len(s) <= Len(t) /\ s = SubSeq(t, 1, Len(s))

\* C18 as stated: in both subcommands the steps run in the order load, scan,
\* persist, and no tree and no CSV is produced before the state is persisted.
C18_PersistBeforeOutput ==
    /\ \A i \in 1..Len(cliLog) :
          cliLog[i] \in {"csv", "render"} => \E j \in 1..(i - 1) : cliLog[j] = "save"
    /\ IsPrefix(cliLog, IF cliCmd = "csv" THEN <<"load", "scan", "save", "csv">>
                        ELSE <<"load", "scan", "save", "render">>)

\* C18, amended: tree runs load, scan, persist, render, and prints nothing
\* before the state is persisted; csv runs load, scan, write the CSV, persist,
\* and save is not called before the CSV is written.
C18_StepOrder ==
    /\ cliCmd = "tree" =>
          /\ IsPrefix(cliLog, <<"load", "scan", "save", "render">>)
          /\ stdout # <<>> => (savePc = "ok" /\ Done("save"))
    /\ cliCmd = "csv" =>
          /\ IsPrefix(cliLog, <<"load", "scan", "csv", "save">>)
          /\ savePc # "idle" => Done("csv")
          /\ stdout = <<>>
    /\ (scanPc # "idle" => Done("load"))
    /\ (savePc # "idle" => Done("scan"))

\* a run of csv that ended well: the CSV was written, then the state persisted
C18_Witness ==
    /\ cliPc = "exit"
    /\ exitCode = 0
    /\ cliCmd = "csv"
    /\ cliLog = <<"load", "scan", "csv", "save">>
    /\ csvFile # files0.csv
    /\ disk[statePath] # files0.store[statePath]

(***************************************************************************)
(* Two processes that save to one target path.  The directory is modelled  *)
(* below the path: a name is a link to an inode, an open file is an inode  *)
(* and an offset, so that a file a process still writes can be truncated   *)
(* or renamed by the other.  Each process runs ScanState::save on a state  *)
(* of its own; failures that the other process does not cause are those of *)
(* SpecSave and are left out here.                                         *)
(***************************************************************************)
Procs == {1, 2}

\* the states the two processes save: serializations of different lengths
ProcStates == {EmptyState,
               [k \in {<<Slash>>} |-> DirEntry(42, <<FileEntry(<<97>>, 100, 42, 42)>>)]}

\* write(2) of `chunk` at offset `off`: a write past the end leaves a hole of zeros
PWrite(bytes, off, chunk) ==
    LET padded == bytes \o [i \in 1..(off - Len(bytes)) |-> 0]
    IN  SubSeq(padded, 1, off) \o chunk
            \o SubSeq(padded, off + Len(chunk) + 1, Len(padded))

\* state.rs 88-104: the bytes and the temporary path
ProcSaveBegin(p) ==
    /\ saver[p].pc = "idle"
    /\ \E order \in KeyOrders(saver[p].st) :
          saver' = [saver EXCEPT ![p].data = SaveBytes(saver[p].st, order),
                                 ![p].tmp = TmpPathFor(statePath),
                                 ![p].pc = "create"]
    /\ UNCHANGED <<state, storeOnly, scanOnly, cliOnly, links, inodes>>

\* state.rs 105, fs::write: open with create and truncate.  An existing name is
\* opened and its inode truncated, a missing one gets a new inode
ProcSaveCreateTmp(p) ==
    /\ saver[p].pc = "create"
    /\ LET tmp == saver[p].tmp
           ino == IF links[tmp] = 0 THEN Len(inodes) + 1 ELSE links[tmp]
       IN  /\ links' = [links EXCEPT ![tmp] = ino]
           /\ inodes' = IF links[tmp] = 0 THEN Append(inodes, <<>>)
                        ELSE [inodes EXCEPT ![ino] = <<>>]
           /\ saver' = [saver EXCEPT ![p].fd = ino, ![p].off = 0, ![p].pc = "write"]
    /\ UNCHANGED <<state, storeOnly, scanOnly, cliOnly>>

\* state.rs 105, fs::write: write_all, one write(2) of n bytes at a time, to the
\* open file at the offset of this process
ProcSaveWrite(p) ==
    /\ saver[p].pc = "write"
    /\ LET data == saver[p].data
           off == saver[p].off
       IN  \E n \in {WriteChunk, Len(data) - off} :
              /\ off + n <= Len(data)
              /\ inodes' = [inodes EXCEPT ![saver[p].fd] =
                              PWrite(@, off, SubSeq(data, off + 1, off + n))]
              /\ saver' = [saver EXCEPT ![p].off = off + n,
                              ![p].pc = IF off + n = Len(data) THEN "rename" ELSE "write"]
    /\ UNCHANGED <<state, storeOnly, scanOnly, cliOnly, links>>

\* state.rs 106: fs::rename moves the name of the temporary file to the target
ProcSaveRename(p) ==
    /\ saver[p].pc = "rename"
    /\ links[saver[p].tmp] # 0
    /\ links' = [links EXCEPT ![statePath] = links[saver[p].tmp], ![saver[p].tmp] = 0]
    /\ saver' = [saver EXCEPT ![p].pc = "ok"]
    /\ UNCHANGED <<state, storeOnly, scanOnly, cliOnly, inodes>>

\* state.rs 106-108: the temporary name is gone (the other process renamed it),
\* fs::rename fails, remove_file finds nothing to remove, the error is returned
ProcSaveRenameFail(p) ==
    /\ saver[p].pc = "rename"
    /\ links[saver[p].tmp] = 0
    /\ saver' = [saver EXCEPT ![p].pc = "failed"]
    /\ UNCHANGED <<state, storeOnly, scanOnly, cliOnly, links, inodes>>

\* inode 1 is the state file of an earlier run, if there is one; no temporary
\* file is left over
InitProcs ==
    /\ state = EmptyState
    /\ StoreUnused
    /\ ScanUnused
    /\ CliUnused
    /\ inodes = << SaveBytes(EmptyState, <<>>) >>
    /\ \E old \in {0, 1} :
          links = [q \in {statePath, TmpPathFor(statePath)} |->
                      IF q = statePath THEN old ELSE 0]
    /\ saver \in [Procs -> {[pc |-> "idle", st |-> s, data |-> <<>>, tmp |-> <<>>,
                             fd |-> 0, off |-> 0] : s \in ProcStates}]

NextProcs ==
    \E p \in Procs :
        \/ ProcSaveBegin(p)
        \/ ProcSaveCreateTmp(p)
        \/ ProcSaveWrite(p)
        \/ ProcSaveRename(p)
        \/ ProcSaveRenameFail(p)

SpecProcs == InitProcs /\ [][NextProcs]_vars

(***************************************************************************)
(* C19                                                                     *)
(***************************************************************************)
\* the complete serializations of the state of process p
Serializations(p) == {SaveBytes(saver[p].st, order) : order \in KeyOrders(saver[p].st)}

\* the target is a file written by the two processes (inode 1 is the old file)
TargetWritten == links[statePath] > 1

TargetBytes == inodes[links[statePath]]

BothFinished == \A p \in Procs : saver[p].pc \in {"ok", "failed"}

\* C19: when two processes save to one target concurrently, the target never
\* holds partially written or mixed content: whenever it is a file the two
\* wrote, it is the complete serialization of the state of one of them, and
\* so it is when both have finished
C19_LastWriterWins ==
    /\ TargetWritten => TargetBytes \in Serializations(1) \cup Serializations(2)
    /\ BothFinished =>
          /\ TargetWritten
          /\ TargetBytes \in Serializations(1) \cup Serializations(2)

(***************************************************************************)
(* What is printed, read back from the output: the lines come in pre-order, *)
(* so the line an entry is nested under is the nearest line before it      *)
(* whose prefix is one segment shorter.                                     *)
(***************************************************************************)
Depth(out, i) == Len(out[i].prefix)

ParentLine(out, i) ==
    IF Depth(out, i) = 0 THEN 1
    ELSE CHOOSE j \in 2..(i - 1) :
            /\ Depth(out, j) = Depth(out, i) - 1
            /\ \A m \in (j + 1)..(i - 1) : Depth(out, m) # Depth(out, i) - 1

\* the printed names from the root down to line i
RECURSIVE NamesTo(_, _)
NamesTo(out, i) ==
    IF i = 1 THEN <<>> ELSE Append(NamesTo(out, ParentLine(out, i)), out[i].name)

Printed(kind, names) == [kind |-> kind, names |-> names]

PrintedEntry(i) == Printed(rendered.out[i].kind, NamesTo(rendered.out, i))

\* a key strictly below the root
BelowRoot(k) ==
    /\ Len(k) > Len(RootBytes) + 1
    /\ SubSeq(k, 1, Len(RootBytes) + 1) = RootBytes \o <<Slash>>
    /\ HasFileName(k)

\* the names on the path of a key, from below the root down to the key
RECURSIVE NamesBelowRoot(_)
NamesBelowRoot(k) ==
    IF ~BelowRoot(k) THEN <<>>
    ELSE Append(NamesBelowRoot(PathParent(k)), PathFileName(k))

\* the key is a directory of the tree of the state: a child of the root, or a
\* child of a directory of the tree
RECURSIVE InTree(_)
InTree(k) ==
    /\ BelowRoot(k)
    /\ k \in DOMAIN state
    /\ (PathParent(k) = RootBytes \/ InTree(PathParent(k)))

\* the filter, in the words of the specification
PassesFilter(name) ==
    /\ (show_hidden \/ ~StartsWithDot(name))
    /\ \A i \in 1..Len(ignore) : ~GlobMatches(ignore[i], name)

AllPass(names) == \A i \in 1..Len(names) : PassesFilter(names[i])

EscapedNames(names) == [i \in 1..Len(names) |-> MaybeEscape(names[i], no_escape)]

\* the directories and the files that are to be printed
ExpectedDirs == {k \in DOMAIN state : InTree(k) /\ AllPass(NamesBelowRoot(k))}

ExpectedFiles ==
    {df \in UNION {{<<d, i>> : i \in 1..Len(state[d].files)} :
                      d \in (ExpectedDirs \cup {RootBytes}) \cap DOMAIN state} :
        PassesFilter(state[df[1]].files[df[2]].filename)}

ExpectedDir(k) == Printed("dir", EscapedNames(NamesBelowRoot(k)))

ExpectedFile(df) ==
    Printed("file", EscapedNames(Append(NamesBelowRoot(df[1]),
                                        state[df[1]].files[df[2]].filename)))

EntryLines == 2..Len(rendered.out)

\* C21: an entry below the root, file or directory, is printed if and only if
\* every directory on its path below the root and the entry itself pass the
\* filter (no leading dot unless show_hidden, no pattern matches the name);
\* each such entry is printed once, under its directory; the root line is
\* always printed.
C21_PrintedIffKept ==
    rendered # NotRendered =>
        /\ rendered.out[1] = Line(<<>>, "root", "root", RootBytes)
        /\ \A v \in {PrintedEntry(i) : i \in EntryLines}
                       \cup {ExpectedDir(k) : k \in ExpectedDirs}
                       \cup {ExpectedFile(df) : df \in ExpectedFiles} :
              Cardinality({i \in EntryLines : PrintedEntry(i) = v})
                 = Cardinality({k \in ExpectedDirs : ExpectedDir(k) = v})
                     + Cardinality({df \in ExpectedFiles : ExpectedFile(df) = v})

\* a rendering without show_hidden of a state with a hidden directory that has
\* a file, and with a directory nested in a directory, that printed nested lines
C21_Witness ==
    /\ rendered # NotRendered
    /\ ~show_hidden
    /\ ignore = <<NameX>>
    /\ {RootBytes, KeyHidden, KeyX, KeyXA, KeyB} \subseteq DOMAIN state
    /\ Len(rendered.out) > 2

\* the lines of the same rendering with the names as they are in the state
RawLines ==
    RenderTree(state, SortedNames(DOMAIN state), RootBytes, ignore, TRUE, show_hidden).out

\* two lines printed for one directory
Siblings(out, i, j) ==
    /\ i \in 2..Len(out)
    /\ j \in 2..Len(out)
    /\ i < j
    /\ ParentLine(out, i) = ParentLine(out, j)

EscapedLine(line) == [line EXCEPT !.name = MaybeEscape(@, no_escape)]

\* C22: the entries printed for a directory, files and child directories
\* together, come in one sequence that is non-decreasing in the collation
\* order of their names; escaping changes the printed names and not the order.
C22_MergedSorted ==
    rendered # NotRendered =>
        /\ Len(RawLines) = Len(rendered.out)
        /\ \A i \in EntryLines : rendered.out[i] = EscapedLine(RawLines[i])
        /\ \A i, j \in EntryLines :
              Siblings(RawLines, i, j) =>
                  CollatorCompare(RawLines[i].name, RawLines[j].name) # 1

\* a directory line printed between two file lines of the same directory, and
\* a file line after it
C22_Witness ==
    /\ rendered # NotRendered
    /\ \E i, j, k \in EntryLines :
          /\ Siblings(rendered.out, i, j)
          /\ Siblings(rendered.out, j, k)
          /\ rendered.out[i].kind = "file"
          /\ rendered.out[j].kind = "dir"
          /\ rendered.out[k].kind = "file"
          /\ rendered.out[i].name # rendered.out[k].name

\* line i is the last line printed for its directory
LastSibling(out, i) == ~\E j \in 2..Len(out) : Siblings(out, i, j)

\* the segment that the entries below line p get for it
SegmentFor(out, p) == IF LastSibling(out, p) THEN "blank" ELSE "bar"

\* C23: of the entries printed for one directory exactly the last has the
\* last-sibling connector; the prefix of an entry has one segment per ancestor
\* below the root, a bar if and only if that ancestor was not the last entry
\* printed for its directory.
C23_ConnectorsAndPrefix ==
    rendered # NotRendered =>
        \A i \in EntryLines :
            LET out == rendered.out
                p == ParentLine(out, i)
            IN  /\ out[i].connector = (IF LastSibling(out, i) THEN "last" ELSE "mid")
                /\ Len(out[i].prefix) = Len(NamesTo(out, i)) - 1
                /\ p = 1 => out[i].prefix = <<>>
                /\ p > 1 => /\ out[p].kind = "dir"
                            /\ out[i].prefix = Append(out[p].prefix, SegmentFor(out, p))

\* a line two directories down, below a last and a non-last ancestor
C23_Witness ==
    /\ rendered # NotRendered
    /\ \E i \in EntryLines :
          /\ rendered.out[i].prefix = <<"blank", "bar">>
          /\ rendered.out[i].connector = "last"
    /\ \E i \in EntryLines : rendered.out[i].connector = "mid"

\* C24: a rendering of a state with a root and options gives the same lines and
\* the same counts whatever order the directory map yields its keys in: every
\* rendering equals the one made from the keys in sorted order.
C24_Deterministic ==
    rendered # NotRendered =>
        rendered = RenderTree(state, SortedNames(DOMAIN state), RootBytes, ignore,
                              no_escape, show_hidden)

\* a rendering of a state whose root has three child directories and whose keys
\* can be yielded in many orders, with lines for two of them
C24_Witness ==
    /\ rendered # NotRendered
    /\ TreeKeys \subseteq DOMAIN state
    /\ Cardinality(PrintedLines("dir")) >= 3

(***************************************************************************)
(* write_csv over a state.  The states have keys whose byte order and      *)
(* nesting differ ("/r/x" < "/r/x.y" < "/r/x/a") and file lists that are   *)
(* not in filename order, as a loaded state can hold them.                 *)
(***************************************************************************)
KeyXDotY == PathJoin(RootBytes, <<120, Dot, 121>>)

CsvKeys == {RootBytes, KeyX, KeyXDotY, KeyXA}

CsvFileLists ==
    {<<>>,
     <<FileEntry(<<98>>, 7, -1, 12)>>,
     <<FileEntry(<<99>>, 100, 42, 0), FileEntry(<<97>>, 0, 3, -42)>>}

CsvStates ==
    UNION {{[k \in K |-> DirEntry(1, fl[k])] : fl \in [K -> CsvFileLists]} :
              K \in SUBSET CsvKeys}

\* write_csv is called on an output path that holds no file
WriteCsvCall ==
    /\ csvFile = NoFile
    /\ csvFile' = File(WriteCsv(state))
    /\ UNCHANGED <<state, storeOnly, scanOnly, procOnly, cliPc, cliCmd, rootKind, verbose, ignoreArgs, ignore,
                   no_escape, show_hidden, cliLog, stderr, stdout, rendered, exitCode, files0>>

InitCsv ==
    /\ state \in CsvStates
    /\ StoreUnused
    /\ ScanUnused
    /\ ProcUnused
    /\ CliUnused

NextCsv == WriteCsvCall

SpecCsv == InitCsv /\ [][NextCsv]_vars

\* the number of file records of the directories in K
RECURSIVE FileRecords(_)
FileRecords(K) ==
    IF K = {} THEN 0
    ELSE LET k == CHOOSE x \in K : TRUE
         IN  Len(state[k].files) + FileRecords(K \ {k})

\* the row of file j of directory d: after the header, the rows of the
\* directories with a smaller key and the files stored before it
RowOf(d, j) == 1 + FileRecords({k \in DOMAIN state : BytesLess(k, d)}) + j

FreshRecord(p) == DirEntry(fs[p].mtime, ScanDirectory(fs, p))

\* the step logs the event for the directory at the head of the walk
Logs(event) ==
    /\ scanQueue # <<>>
    /\ scanLog' = Append(scanLog, LogEvent(event, Head(scanQueue).path))

\* C26: a cache hit leaves the record of the directory as it was (dir_mtime
\* and every file record), also when a file of the directory was written to
\* since; in every step of a scan before the pruning each record stays as it
\* is or is replaced by the freshly read record of the directory being visited.
C26_CacheHitKeepsRecord ==
    [][(scanPc = "walk" /\ scanQueue # <<>>) =>
          /\ DOMAIN state \subseteq DOMAIN state'
          /\ Logs("cache hit") => state' = state
          /\ \A k \in DOMAIN state' :
                \/ k \in DOMAIN state /\ state'[k] = state[k]
                \/ /\ Logs("scanning")
                   /\ k = DirKey(Head(scanQueue).path)
                   /\ state'[k] = FreshRecord(Head(scanQueue).path)]_vars

\* a second scan served a directory from the cache after one of its files was
\* written to: the record still holds the file as the first scan read it
C26_Witness ==
    /\ ScanDone
    /\ run = 2
    /\ change = "modify"
    /\ \E p \in Logged("cache hit") :
          /\ DirKey(p) \in DOMAIN state
          /\ state[DirKey(p)] = scanPre[DirKey(p)]
          /\ state[DirKey(p)].files # ScanDirectory(fs, p)
          /\ state[DirKey(p)].files # <<>>

\* the paths of the regular files of the tree
RegularFilePaths ==
    UNION {{p \o <<fs[p].entries[i].name>> :
               i \in {j \in 1..Len(fs[p].entries) : fs[p].entries[j].kind = "file"}} :
           p \in DOMAIN fs}

\* the regular files that are immediate children of a directory, as records
RegularFilesOf(p) ==
    LET regular == SelectSeq(fs[p].entries, LAMBDA e : e.kind = "file")
    IN  [i \in 1..Len(regular) |->
            FileEntry(ToStringLossy(regular[i].name), regular[i].size,
                      regular[i].ctime, regular[i].mtime)]

Occurrences(s, e) == Cardinality({i \in 1..Len(s) : s[i] = e})

SameRecords(s, t) ==
    /\ Len(s) = Len(t)
    /\ \A i \in 1..Len(s) : Occurrences(s, s[i]) = Occurrences(t, s[i])

\* C27: after a successful scan every key of the state is the path of a
\* visited directory and of no regular file, and every record the scan wrote
\* lists exactly the regular files that are immediate children of the
\* directory it was read from (no subdirectory, nothing from deeper levels).
C27_KeysAndFiles ==
    ScanDone =>
        /\ \A k \in DOMAIN state :
              /\ \E p \in Visited : DirKey(p) = k
              /\ \A q \in RegularFilePaths : DirKey(q) # k
        /\ \A k \in DOMAIN state \cap {DirKey(p) : p \in Logged("scanning")} :
              \E p \in Logged("scanning") :
                 /\ DirKey(p) = k
                 /\ SameRecords(state[k].files, RegularFilesOf(p))

\* C28: after a successful scan dirs_cached + dirs_scanned is the number of
\* directories visited, each counted once as cached or as scanned, and is the
\* number of entries of the state; dirs_removed is the number of entries the
\* state had before the scan minus those among them that were visited.
C28_CountsAddUp ==
    ScanDone =>
        /\ stats.dirs_cached = Cardinality(Logged("cache hit"))
        /\ stats.dirs_scanned = Cardinality(Logged("scanning"))
        /\ Logged("cache hit") \cap Logged("scanning") = {}
        /\ stats.dirs_cached + stats.dirs_scanned = Cardinality(Visited)
        /\ Cardinality(Visited) = Cardinality(DOMAIN state)
        /\ stats.dirs_removed =
              Cardinality(DOMAIN scanPre) - Cardinality(DOMAIN scanPre \cap VisitedKeys)

\* the command was run a second time, that run loaded the state file the
\* first run saved, and it has returned 0
SecondRunComplete ==
    /\ cliPc = "exit"
    /\ exitCode = 0
    /\ stateOrigin = VERSION
    /\ \E i \in 1..Len(cliLog) : cliLog[i] = "again"

\* C29: with the state file at its default place in the scanned root, the
\* second of two complete runs (load, scan, save) on a tree nobody else
\* touches serves every directory from the cache, the root included, and
\* scans none: the save of the first run does not invalidate the root's entry.
C29_SecondRunAllCached ==
    (SecondRunComplete /\ statePath = ResolveStatePath(NoPath, <<RootName>>)) =>
        /\ stats.dirs_scanned = 0
        /\ <<>> \in Logged("cache hit")
        /\ Logged("scanning") = {}

\* the entry of a key, or none
EntryOf(st, k) == IF k \in DOMAIN st THEN <<st[k]>> ELSE <<>>

PathLess(p, q) ==
    \/ Len(p) < Len(q) /\ SubSeq(q, 1, Len(p)) = p
    \/ \E i \in 1..Len(p) :
          /\ i <= Len(q)
          /\ SubSeq(p, 1, i - 1) = SubSeq(q, 1, i - 1)
          /\ BytesLess(p[i], q[i])

\* a directory of the tree that the exclusion list lets the walker reach
Walkable(p) ==
    /\ p \in DOMAIN fs
    /\ \A n \in 0..Len(p) : ToStringLossy(FileNameOf(SubSeq(p, 1, n))) \notin exclude

\* the mtime of the entry that the i-th visit found under its key, if any
MtimeFound(i) ==
    LET before == {j \in 1..(i - 1) : DirKey(scanLog[j].path) = DirKey(scanLog[i].path)}
        last == CHOOSE j \in before : \A h \in before : h <= j
    IN  IF before # {} THEN <<fs[scanLog[last].path].mtime>>
        ELSE IF DirKey(scanLog[i].path) \in DOMAIN scanPre
             THEN <<scanPre[DirKey(scanLog[i].path)].dir_mtime>>
        ELSE <<>>

\* the record a key holds after the walk
RecordAfter(k) ==
    LET scans == {i \in 1..Len(scanLog) :
                     scanLog[i].event = "scanning" /\ DirKey(scanLog[i].path) = k}
        last == CHOOSE i \in scans : \A h \in scans : h <= i
    IN  IF scans = {} THEN scanPre[k] ELSE FreshRecord(scanLog[last].path)

\* C31: a scan visits a directory before its descendants and the children of
\* a directory in ascending order of their names, so the sequence of cache
\* hit and scanning events and the state a scan ends with are determined by
\* the tree, the state the scan started from and the exclusion list.
C31_FixedOrder ==
    (scanPc \in {"walk", "error"} \/ ScanDone) =>
        /\ \A i, j \in 1..Len(scanLog) :
              i < j => PathLess(scanLog[i].path, scanLog[j].path)
        /\ \A i \in 1..Len(scanLog) :
              /\ Walkable(scanLog[i].path)
              /\ \A p \in DOMAIN fs :
                    (Walkable(p) /\ PathLess(p, scanLog[i].path)) => p \in Visited
              /\ scanLog[i].event =
                    IF MtimeFound(i) = <<fs[scanLog[i].path].mtime>> THEN "cache hit"
                    ELSE "scanning"
        /\ ScanDone =>
              /\ Visited = {p \in DOMAIN fs : Walkable(p)}
              /\ DOMAIN state = VisitedKeys
              /\ \A k \in DOMAIN state : state[k] = RecordAfter(k)

\* a finished scan of a tree with two levels and with siblings, with cache
\* hits and rescans among its events
C31_Witness ==
    /\ ScanDone
    /\ {<<NameX>>, <<NameX, NameA>>, <<NameFE>>, <<NameFF>>} \subseteq Visited
    /\ Logged("cache hit") # {}
    /\ Logged("scanning") # {}

\* C32: a scan that was started finishes: it returns the counts after it has
\* handled every entry the walker yields, visited every directory that is not
\* excluded and pruned, or it returns an error at the step that failed; no
\* directory is passed over, and nothing happens after an error.
C32_ScanFinishes ==
    /\ (scanPc = "walk") ~> (scanPc \in {"done", "error"})
    /\ [][scanPc = "walk" =>
            \/ /\ scanPc' = "walk"
               /\ scanQueue # <<>>
               /\ scanQueue' = Tail(scanQueue)
               /\ Head(scanQueue).is_dir =>
                     scanLog' \in {Append(scanLog, LogEvent(e, Head(scanQueue).path)) :
                                     e \in {"cache hit", "scanning"}}
            \/ /\ scanPc' = "error"
               /\ scanQueue # <<>>
               /\ UNCHANGED <<state, stats, scanLog>>
            \/ /\ scanPc' = "done"
               /\ scanQueue = <<>>]_vars
    /\ [][scanPc = "error" => UNCHANGED <<scanPc, state, stats, scanLog>>]_vars
    /\ [](ScanDone =>
            /\ Visited = {p \in DOMAIN fs : Walkable(p)}
            /\ stats.dirs_cached + stats.dirs_scanned = Len(scanLog)
            /\ DOMAIN state \subseteq seen_dirs)

\* a scan that failed after it had visited a directory, with directories
\* still to come
C32_Witness ==
    /\ scanPc = "error"
    /\ Visited # {}
    /\ \E i \in 1..Len(scanQueue) : scanQueue[i].is_dir /\ scanQueue[i].path \notin Visited

(***************************************************************************)
(* Properties of parse_ignore_patterns.                                    *)
(***************************************************************************)
\* the positions of the arguments that compile, and the n-th of them
ValidAt == {i \in 1..Len(ignoreArgs) : GlobValid(ignoreArgs[i])}

NthValid(n) ==
    CHOOSE i \in ValidAt : Cardinality({h \in ValidAt : h <= i}) = n

Warnings ==
    SelectSeq(stderr, LAMBDA msg : msg.kind = "warning: invalid glob pattern")

\* C33: a pattern of the ignore list that does not compile is dropped with a
\* warning and does not end the run: render_tree gets exactly the patterns
\* that compile, in the order they were given, and the tree is rendered with
\* them.
C33_InvalidPatternsDropped ==
    (cliCmd = "tree" /\ "render" \in {cliLog[i] : i \in 1..Len(cliLog)} /\ cliPc = "exit") =>
        /\ exitCode = 0
        /\ Len(ignore) = Cardinality(ValidAt)
        /\ \A n \in 1..Len(ignore) : ignore[n] = ignoreArgs[NthValid(n)]
        /\ Len(Warnings) = Len(ignoreArgs) - Cardinality(ValidAt)
        /\ \A i \in 1..Len(ignoreArgs) :
              ~GlobValid(ignoreArgs[i]) <=>
                  \E n \in 1..Len(Warnings) : Warnings[n].detail = ignoreArgs[i]
        /\ rendered # NotRendered
        /\ \E keys \in KeyOrders(state) :
              rendered = RenderTree(state, keys, RootBytes, ignore, no_escape, show_hidden)
        /\ Len(stdout) = Len(rendered.out) + 1

\* a run that was given "x", "[", "z", "a**" and "a" has rendered the tree
\* without the entries named x, z and a
C33_Witness ==
    /\ cliPc = "exit"
    /\ exitCode = 0
    /\ ignoreArgs = <<NameX, <<LeftBracket>>, <<122>>, <<97, Star, Star>>, NameA>>
    /\ ignore = <<NameX, <<122>>, NameA>>
    /\ Len(Warnings) = 2
    /\ {KeyX, RootBytes} \subseteq DOMAIN state
    /\ Len(rendered.out) >= 2
    /\ \A i \in 1..Len(rendered.out) : rendered.out[i].name \notin {NameX, <<122>>, NameA}

(***************************************************************************)
(* Properties of tmp_path_for.                                             *)
(***************************************************************************)
EndsWith(name, suffix) ==
    Len(name) >= Len(suffix)
        /\ SubSeq(name, Len(name) - Len(suffix) + 1, Len(name)) = suffix

\* C34: the temporary path of a target lies in the directory of the target,
\* its file name starts with a dot and ends with ".tmp", being the name of
\* the target with ".tmp" appended and with a dot put in front unless the
\* name starts with one, and it is never the target path.
C34_TmpPathShape ==
    saveTmp # <<>> =>
        /\ Parent(saveTmp) = Parent(statePath)
        /\ StartsWithDot(FileName(saveTmp))
        /\ EndsWith(FileName(saveTmp), TmpSuffix)
        /\ FileName(saveTmp) =
              IF StartsWithDot(FileName(statePath)) THEN FileName(statePath) \o TmpSuffix
              ELSE <<Dot>> \o FileName(statePath) \o TmpSuffix
        /\ saveTmp # statePath

\* save has returned, Ok or an error
SaveReturned == savePc \in {"ok", "failed"}

\* C35: when save returns, with Ok, with an error of writing the temporary
\* file or with an error of the rename, there is no file at the temporary
\* path.
C35_NoTmpAfterSave ==
    SaveReturned => ~disk[saveTmp].exists

\* load has returned in this step
LoadReturns == loadOut'.tag # "none" /\ <<loadOut, loadRead>>' # <<loadOut, loadRead>>

\* C36: with a temporary file left by a crashed save, load returns what the
\* target alone gives, and a later save that returns Ok has truncated and
\* renamed the temporary file: the target holds the new state, complete, and
\* no file is at the temporary path.
C36_LeftoverHarmless ==
    /\ [][LoadReturns =>
            /\ loadRead'.err = "" =>
                  disk[statePath].exists /\ loadRead'.bytes = disk[statePath].bytes
            /\ loadRead'.err = "NotFound" => ~disk[statePath].exists
            /\ loadOut'.tag = "Loaded" => loadOut' = LoadBytes(disk[statePath].bytes)
            /\ disk' = disk]_vars
    /\ [][(savePc = "create" /\ savePc' = "write") => disk'[saveTmp] = File(<<>>)]_vars
    /\ [](savePc = "ok" =>
            /\ ~disk[saveTmp].exists
            /\ disk[statePath] = File(saveData)
            /\ LoadBytes(disk[statePath].bytes) = Loaded(saveState))

\* the leftover was there when the target was loaded, and the save of the
\* loaded state's successor has returned Ok over a loadable older target
C36_Witness ==
    /\ savePc = "ok"
    /\ saveOld.exists
    /\ LoadBytes(saveOld.bytes).tag = "Loaded"
    /\ File(saveData) # saveOld
    /\ ~disk[TmpPathFor(statePath)].exists
    /\ loadOut = Loaded(saveState)

====
